---- MODULE Spec2Model ----
(***************************************************************************)
(* Verification model of the veloce NES core (plugins/nes): the run_frame  *)
(* loop of NESPlugin, the timing / VBlank / NMI part of PPU::step, the     *)
(* PPU and bus register dispatch, the MMC3 (Mapper004) A12 filter and IRQ  *)
(* counter, and the savestate serialisation of every component.            *)
(*                                                                         *)
(* The machine state is one record per C++ object (cpu, ppu, apu, bus,     *)
(* mapper, nes); field names are the C++ member names.  Operators whose    *)
(* name is Class_method take and return such records and are translated    *)
(* statement by statement from the method.                                 *)
(***************************************************************************)
EXTENDS Integers, Sequences, FiniteSets, TLC

VARIABLES
    nes,      \* NESPlugin: m_rom_loaded, m_total_cycles, m_frame_count
    cpu,      \* CPU registers and interrupt latches
    ppu,      \* PPU registers, timing and NMI state
    apu,      \* APU state (as serialised)
    bus,      \* Bus: RAM, controller latches, DMA counter
    mapper,   \* the cartridge's mapper (Mapper004 unless stated)
    loop,     \* position of the host/run_frame control flow
    ghost,    \* history variables used only by the properties
    twin      \* a second core, restored from a savestate of the first

vars == <<nes, cpu, ppu, apu, bus, mapper, loop, ghost, twin>>

---------------------------------------------------------------------------
(* Program constants *)

DotsPerLine == 341
LastCycle == 340
LastScanline == 261
VBlankLine == 241
FrameDots == 89342
FILTER_THRESHOLD == 16
IRQ_DELAY_CYCLES == 0
NmiDelayDots == 15
InterruptCycles == 7

(* Bounds of the model *)

\* dots before the frame wrap in which single dots are explored
WinBefore == 24
\* dots after the frame wrap in which single dots are explored
WinAfter == 24
\* PPU frames explored from reset
MaxFrames == 2
\* the modelled cartridge: PRG ROM in 8 KiB banks, CHR ROM in 1 KiB banks
PrgBanks == 4
ChrBanks == 8

---------------------------------------------------------------------------
(* Fixed-width helpers *)

Bit(x, n) == (x \div (2 ^ n)) % 2

U8(x) == x % 256

U16(x) == x % 65536

\* (mask & 0x18) != 0
RenderingOn(mask) == (mask \div 8) % 4 # 0

\* std::array<uint8_t, N> of mostly-zero bytes: the function holds the
\* non-zero bytes only, so two equal arrays are equal values.
ZeroArray == [i \in {} |-> 0]

ArrGet(a, i) == IF i \in DOMAIN a THEN a[i] ELSE 0

ArrSet(a, i, v) ==
    LET d == IF v = 0 THEN DOMAIN a \ {i} ELSE DOMAIN a \cup {i}
    IN  [j \in d |-> IF j = i THEN v ELSE a[j]]

\* F applied to the value of v, with v evaluated once: the sequencing of
\* statements that each read what the one before wrote
Let(v, F(_)) == CHOOSE r \in {F(x) : x \in {v}} : TRUE

---------------------------------------------------------------------------
(* PPU *)

PPU_reset ==
    [ m_ctrl |-> 0, m_mask |-> 0, m_status |-> 0, m_oam_addr |-> 0,
      m_v |-> 0, m_t |-> 0, m_x |-> 0, m_w |-> FALSE, m_data_buffer |-> 0,
      m_scanline |-> 0, m_cycle |-> 0, m_frame |-> 0, m_odd_frame |-> FALSE,
      m_nmi_occurred |-> FALSE, m_nmi_output |-> FALSE,
      m_nmi_triggered |-> FALSE, m_nmi_triggered_delayed |-> FALSE,
      m_nmi_pending |-> FALSE, m_nmi_delay |-> 0, m_nmi_latched |-> FALSE,
      m_vbl_suppress |-> FALSE, m_suppress_nmi |-> FALSE,
      m_frame_complete |-> FALSE,
      m_mask_prev |-> 0, m_mask_write_cycle |-> 0,
      m_bg_shifter_pattern_lo |-> 0, m_bg_shifter_pattern_hi |-> 0,
      m_bg_shifter_attrib_lo |-> 0, m_bg_shifter_attrib_hi |-> 0,
      m_bg_next_tile_id |-> 0, m_bg_next_tile_attrib |-> 0,
      m_bg_next_tile_lo |-> 0, m_bg_next_tile_hi |-> 0,
      m_oam |-> ZeroArray, m_nametable |-> ZeroArray, m_palette |-> ZeroArray,
      m_mirroring |-> 0,
      m_scanline_sprites |-> <<>>,
      m_sprite_count |-> 0, m_sprite_zero_index |-> 0 - 1,
      m_sprite_zero_hit_possible |-> FALSE, m_sprite_zero_rendering |-> FALSE ]

\* uint32_t frame_cycle = m_scanline * 341 + m_cycle
FrameCycle(p) == p.m_scanline * DotsPerLine + p.m_cycle

\* The decision taken at (261, 340) of an odd frame: which mask value
\* decides the skip.
EffectiveMask(p) ==
    LET decision_cycle == LastScanline * DotsPerLine + LastCycle
        \* cycles_since_write <= 2; a write after the decision dot gives
        \* cycles_since_write = 0xFFFFFFFF, which is not
        recent == /\ decision_cycle >= p.m_mask_write_cycle
                  /\ decision_cycle - p.m_mask_write_cycle <= 2
    IN  IF recent THEN p.m_mask_prev ELSE p.m_mask

\* A variant of the advance in which the odd-frame skip drops dot (0,0)
\* instead of dot (261,340): it lands on (0,1).
PPU_advance_skip_to_dot_1(p) ==
    LET c1 == p.m_cycle + 1
        skip == /\ p.m_scanline = LastScanline
                /\ c1 = LastCycle
                /\ p.m_odd_frame
                /\ RenderingOn(EffectiveMask(p))
        p1 == IF skip
              THEN [p EXCEPT !.m_cycle = 1, !.m_scanline = 0,
                             !.m_frame = @ + 1, !.m_odd_frame = ~@]
              ELSE [p EXCEPT !.m_cycle = c1]
        wrapLine == p1.m_cycle > LastCycle
        wrapFrame == wrapLine /\ p1.m_scanline + 1 > LastScanline
        p2 == IF ~wrapLine THEN p1
              ELSE IF ~wrapFrame
                   THEN [p1 EXCEPT !.m_cycle = 0, !.m_scanline = @ + 1]
                   ELSE [p1 EXCEPT !.m_cycle = 0, !.m_scanline = 0,
                                   !.m_frame = @ + 1, !.m_odd_frame = ~@]
    IN  [ppu |-> p2, frame_start |-> skip \/ wrapFrame]

\* "Advance timing": m_cycle++, the odd-frame skip, the scanline wrap and
\* the frame wrap.  frame_start tells whether Bus::notify_frame_start()
\* was called.
PPU_advance(p) ==
    LET c1 == p.m_cycle + 1
        skip == /\ p.m_scanline = LastScanline
                /\ c1 = LastCycle
                /\ p.m_odd_frame
                /\ RenderingOn(EffectiveMask(p))
        p1 == IF skip
              THEN [p EXCEPT !.m_cycle = 0, !.m_scanline = 0,
                             !.m_frame = @ + 1, !.m_odd_frame = ~@]
              ELSE [p EXCEPT !.m_cycle = c1]
        wrapLine == p1.m_cycle > LastCycle
        wrapFrame == wrapLine /\ p1.m_scanline + 1 > LastScanline
        p2 == IF ~wrapLine THEN p1
              ELSE IF ~wrapFrame
                   THEN [p1 EXCEPT !.m_cycle = 0, !.m_scanline = @ + 1]
                   ELSE [p1 EXCEPT !.m_cycle = 0, !.m_scanline = 0,
                                   !.m_frame = @ + 1, !.m_odd_frame = ~@]
    IN  [ppu |-> p2, frame_start |-> skip \/ wrapFrame]

\* A variant of the flag logic that clears the VBlank flag at (261,1)
\* instead of (261,0).
PPU_step_timing_clear_at_dot_1(p) ==
    LET p0 == IF p.m_scanline = LastScanline /\ p.m_cycle = 1
              THEN [p EXCEPT !.m_vbl_suppress = FALSE, !.m_suppress_nmi = FALSE]
              ELSE p
        ClearVbl(p1) ==
              IF p1.m_scanline = LastScanline /\ p1.m_cycle = 1
              THEN [p1 EXCEPT !.m_status = @ - ((@ \div 32) * 32),
                              !.m_nmi_occurred = FALSE]
              ELSE p1
        SetVbl(p2) ==
              LET atVbl == p2.m_scanline = VBlankLine /\ p2.m_cycle = 1
                  setVbl == atVbl /\ ~p2.m_vbl_suppress
                  latch == setVbl /\ p2.m_nmi_output /\ ~p2.m_suppress_nmi
              IN  IF ~atVbl THEN p2
                  ELSE [p2 EXCEPT
                          !.m_frame_complete = TRUE,
                          !.m_status = IF setVbl /\ Bit(@, 7) = 0 THEN @ + 128 ELSE @,
                          !.m_nmi_occurred = IF setVbl THEN TRUE ELSE @,
                          !.m_nmi_delay = IF latch THEN NmiDelayDots ELSE @,
                          !.m_nmi_latched = IF latch THEN TRUE ELSE @,
                          !.m_vbl_suppress = FALSE]
        NmiDelay(p3) ==
              IF p3.m_nmi_delay > 0
              THEN LET d == p3.m_nmi_delay - 1
                       fire == d = 0 /\ p3.m_nmi_latched
                   IN  [p3 EXCEPT
                          !.m_nmi_delay = d,
                          !.m_nmi_triggered = IF fire /\ ~p3.m_suppress_nmi THEN TRUE ELSE @,
                          !.m_nmi_latched = IF fire THEN FALSE ELSE @]
              ELSE p3
    IN  Let(PPU_advance(p0), LAMBDA adv :
        Let(ClearVbl(adv.ppu), LAMBDA p2 :
        Let(SetVbl(p2), LAMBDA p3 :
            [ppu |-> NmiDelay(p3), frame_start |-> adv.frame_start])))

\* A variant of the flag logic that sets the VBlank flag at (241,1) also
\* after a $2002 read at (241,0).
PPU_step_timing_ignores_suppress(p) ==
    LET p0 == IF p.m_scanline = LastScanline /\ p.m_cycle = 1
              THEN [p EXCEPT !.m_vbl_suppress = FALSE, !.m_suppress_nmi = FALSE]
              ELSE p
        ClearVbl(p1) ==
              IF p1.m_scanline = LastScanline /\ p1.m_cycle = 0
              THEN [p1 EXCEPT !.m_status = @ - ((@ \div 32) * 32),
                              !.m_nmi_occurred = FALSE]
              ELSE p1
        SetVbl(p2) ==
              LET atVbl == p2.m_scanline = VBlankLine /\ p2.m_cycle = 1
                  setVbl == atVbl
                  latch == setVbl /\ p2.m_nmi_output /\ ~p2.m_suppress_nmi
              IN  IF ~atVbl THEN p2
                  ELSE [p2 EXCEPT
                          !.m_frame_complete = TRUE,
                          !.m_status = IF setVbl /\ Bit(@, 7) = 0 THEN @ + 128 ELSE @,
                          !.m_nmi_occurred = IF setVbl THEN TRUE ELSE @,
                          !.m_nmi_delay = IF latch THEN NmiDelayDots ELSE @,
                          !.m_nmi_latched = IF latch THEN TRUE ELSE @,
                          !.m_vbl_suppress = FALSE]
        NmiDelay(p3) ==
              IF p3.m_nmi_delay > 0
              THEN LET d == p3.m_nmi_delay - 1
                       fire == d = 0 /\ p3.m_nmi_latched
                   IN  [p3 EXCEPT
                          !.m_nmi_delay = d,
                          !.m_nmi_triggered = IF fire /\ ~p3.m_suppress_nmi THEN TRUE ELSE @,
                          !.m_nmi_latched = IF fire THEN FALSE ELSE @]
              ELSE p3
    IN  Let(PPU_advance(p0), LAMBDA adv :
        Let(ClearVbl(adv.ppu), LAMBDA p2 :
        Let(SetVbl(p2), LAMBDA p3 :
            [ppu |-> NmiDelay(p3), frame_start |-> adv.frame_start])))

\* The flag logic of PPU::step around the advance: suppression reset at
\* (261,1) before it; VBlank clear at (261,0), VBlank set / frame complete
\* at (241,1) and the NMI delay countdown after it.
PPU_step_timing(p) ==
    LET p0 == IF p.m_scanline = LastScanline /\ p.m_cycle = 1
              THEN [p EXCEPT !.m_vbl_suppress = FALSE, !.m_suppress_nmi = FALSE]
              ELSE p
        ClearVbl(p1) ==
              IF p1.m_scanline = LastScanline /\ p1.m_cycle = 0
              THEN [p1 EXCEPT !.m_status = @ - ((@ \div 32) * 32),
                              !.m_nmi_occurred = FALSE]
              ELSE p1
        SetVbl(p2) ==
              LET atVbl == p2.m_scanline = VBlankLine /\ p2.m_cycle = 1
                  setVbl == atVbl /\ ~p2.m_vbl_suppress
                  latch == setVbl /\ p2.m_nmi_output /\ ~p2.m_suppress_nmi
              IN  IF ~atVbl THEN p2
                  ELSE [p2 EXCEPT
                          !.m_frame_complete = TRUE,
                          !.m_status = IF setVbl /\ Bit(@, 7) = 0 THEN @ + 128 ELSE @,
                          !.m_nmi_occurred = IF setVbl THEN TRUE ELSE @,
                          !.m_nmi_delay = IF latch THEN NmiDelayDots ELSE @,
                          !.m_nmi_latched = IF latch THEN TRUE ELSE @,
                          !.m_vbl_suppress = FALSE]
        NmiDelay(p3) ==
              IF p3.m_nmi_delay > 0
              THEN LET d == p3.m_nmi_delay - 1
                       fire == d = 0 /\ p3.m_nmi_latched
                   IN  [p3 EXCEPT
                          !.m_nmi_delay = d,
                          !.m_nmi_triggered = IF fire /\ ~p3.m_suppress_nmi THEN TRUE ELSE @,
                          !.m_nmi_latched = IF fire THEN FALSE ELSE @]
              ELSE p3
    IN  Let(PPU_advance(p0), LAMBDA adv :
        Let(ClearVbl(adv.ppu), LAMBDA p2 :
        Let(SetVbl(p2), LAMBDA p3 :
            [ppu |-> NmiDelay(p3), frame_start |-> adv.frame_start])))

\* int PPU::check_nmi(): one-shot, immediate before delayed
PPU_check_nmi(p) ==
    IF p.m_nmi_triggered
    THEN [ppu |-> [p EXCEPT !.m_nmi_triggered = FALSE], ret |-> 1]
    ELSE IF p.m_nmi_triggered_delayed
         THEN [ppu |-> [p EXCEPT !.m_nmi_triggered_delayed = FALSE], ret |-> 2]
         ELSE [ppu |-> p, ret |-> 0]

\* the same, leaving the flag set
PPU_check_frame_complete_keeps_flag(p) ==
    [ppu |-> p, ret |-> p.m_frame_complete]

\* bool PPU::check_frame_complete(): one-shot
PPU_check_frame_complete(p) ==
    IF p.m_frame_complete
    THEN [ppu |-> [p EXCEPT !.m_frame_complete = FALSE], ret |-> TRUE]
    ELSE [ppu |-> p, ret |-> FALSE]

\* The nametable RAM index chosen by the switch on the mirror mode in
\* PPU::ppu_read / PPU::ppu_write (address already in $2000-$3EFF).
PPU_nametable_index(mirror, address) ==
    LET a == address % 4096
    IN  IF mirror = 0 THEN (IF a >= 2048 THEN 1024 + (a % 1024) ELSE a % 1024)
        ELSE IF mirror = 1 THEN a % 2048
        ELSE IF mirror = 2 THEN a % 1024
        ELSE IF mirror = 3 THEN 1024 + (a % 1024)
        ELSE a

\* The palette RAM index of PPU::ppu_read / PPU::ppu_write.
PPU_palette_index(address) ==
    LET a == address % 32
    IN  IF a \in {16, 20, 24, 28} THEN a % 16 ELSE a

\* uint8_t PPU::ppu_read(address).  Pattern-table reads go to the
\* cartridge; the modelled cartridge has zero-filled CHR memory.
PPU_ppu_read(p, mirror, address) ==
    LET a == address % 16384
    IN  IF a < 8192 THEN 0
        ELSE IF a < 16128 THEN ArrGet(p.m_nametable, PPU_nametable_index(mirror, a))
        ELSE ArrGet(p.m_palette, PPU_palette_index(a))

\* void PPU::ppu_write(address, value).  Pattern-table writes go to the
\* cartridge (CHR RAM), outside the PPU record.
PPU_ppu_write(p, mirror, address, value) ==
    LET a == address % 16384
    IN  IF a < 8192 THEN p
        ELSE IF a < 16128
        THEN [p EXCEPT !.m_nametable =
                  ArrSet(@, PPU_nametable_index(mirror, a), value)]
        ELSE [p EXCEPT !.m_palette = ArrSet(@, PPU_palette_index(a), value)]

\* a & b on 16-bit operands
And16(a, b) ==
    LET RECURSIVE From(_)
        From(i) == IF i = 16 THEN 0
                   ELSE (Bit(a, i) * Bit(b, i) * (2 ^ i)) + From(i + 1)
    IN  From(0)

\* "Increment horizontal": coarse X with nametable wrap
PPU_increment_horizontal(v) ==
    IF v % 32 = 31
    THEN (v - 31) + (1024 * (1 - (2 * Bit(v, 10))))
    ELSE U16(v + 1)

\* "Increment vertical": fine Y, then coarse Y with nametable wrap
PPU_increment_vertical(v) ==
    IF (v \div 4096) % 8 # 7
    THEN U16(v + 4096)
    ELSE LET v1 == v - (7 * 4096)
             y == (v1 \div 32) % 32
             v2 == IF y = 29 THEN v1 + (2048 * (1 - (2 * Bit(v1, 11)))) ELSE v1
             y1 == IF y = 29 \/ y = 31 THEN 0 ELSE y + 1
         IN  (v2 - (y * 32)) + (y1 * 32)

\* void PPU::load_background_shifters()
PPU_load_background_shifters(p) ==
    [p EXCEPT
       !.m_bg_shifter_pattern_lo = ((@ \div 256) * 256) + p.m_bg_next_tile_lo,
       !.m_bg_shifter_pattern_hi = ((@ \div 256) * 256) + p.m_bg_next_tile_hi,
       !.m_bg_shifter_attrib_lo = ((@ \div 256) * 256)
            + (IF Bit(p.m_bg_next_tile_attrib, 0) = 1 THEN 255 ELSE 0),
       !.m_bg_shifter_attrib_hi = ((@ \div 256) * 256)
            + (IF Bit(p.m_bg_next_tile_attrib, 1) = 1 THEN 255 ELSE 0)]

\* void PPU::update_shifters()
PPU_update_shifters(p) ==
    IF Bit(p.m_mask, 3) = 1
    THEN [p EXCEPT !.m_bg_shifter_pattern_lo = U16(@ * 2),
                   !.m_bg_shifter_pattern_hi = U16(@ * 2),
                   !.m_bg_shifter_attrib_lo = U16(@ * 2),
                   !.m_bg_shifter_attrib_hi = U16(@ * 2)]
    ELSE p

\* The 8-dot background fetch switch of PPU::step.  load: phase 0 calls
\* load_background_shifters(); keep: the attribute and pattern bytes read
\* are stored (the pre-render dots 1-256 discard them).  fetch is the
\* address handed to Bus::notify_ppu_address_bus at this dot, if any.
PPU_background_fetch(p, mirror, load, keep) ==
    LET phase == (p.m_cycle - 1) % 8
        v == p.m_v
        nt_addr == 8192 + (v % 4096)
        at_addr == 9152 + (((v \div 1024) % 4) * 1024)
                        + (((v \div 128) % 8) * 8) + ((v \div 4) % 8)
        pat_addr == (Bit(p.m_ctrl, 4) * 4096) + (p.m_bg_next_tile_id * 16)
                        + ((v \div 4096) % 8)
    IN  IF phase = 0 THEN
            Let(IF load THEN PPU_load_background_shifters(p) ELSE p, LAMBDA p1 :
                [ppu |-> [p1 EXCEPT !.m_bg_next_tile_id =
                                        PPU_ppu_read(p1, mirror, nt_addr)],
                 fetch |-> <<nt_addr>>])
        ELSE IF phase = 2 THEN
            LET a0 == PPU_ppu_read(p, mirror, at_addr)
                a1 == IF Bit(v, 6) = 1 THEN a0 \div 16 ELSE a0
                a2 == IF Bit(v, 1) = 1 THEN a1 \div 4 ELSE a1
            IN  [ppu |-> IF keep THEN [p EXCEPT !.m_bg_next_tile_attrib = a2]
                         ELSE p,
                 fetch |-> <<at_addr>>]
        ELSE IF phase = 4 THEN
            [ppu |-> IF keep
                     THEN [p EXCEPT !.m_bg_next_tile_lo =
                                        PPU_ppu_read(p, mirror, pat_addr)]
                     ELSE p,
             fetch |-> <<pat_addr>>]
        ELSE IF phase = 6 THEN
            [ppu |-> IF keep
                     THEN [p EXCEPT !.m_bg_next_tile_hi =
                                        PPU_ppu_read(p, mirror, pat_addr + 8)]
                     ELSE p,
             fetch |-> <<pat_addr + 8>>]
        ELSE IF phase = 7 /\ RenderingOn(p.m_mask) THEN
            [ppu |-> [p EXCEPT !.m_v = PPU_increment_horizontal(@)],
             fetch |-> <<>>]
        ELSE [ppu |-> p, fetch |-> <<>>]

\* void PPU::evaluate_sprites_for_next_scanline(scanline): the loop over
\* OAM stops at the eighth sprite in range, so the sprites taken are the
\* in-range ones with fewer than eight in-range sprites before them, in
\* OAM order.  The x position of a sprite, counted down by render_pixel(),
\* belongs to the pixel output and is not kept.
PPU_evaluate_sprites_for_next_scanline(p, scanline) ==
    LET sprite_height == IF Bit(p.m_ctrl, 5) = 1 THEN 16 ELSE 8
        InRange(i) == LET diff == scanline - ArrGet(p.m_oam, i * 4)
                      IN  diff >= 0 /\ diff < sprite_height
        Before(S, i) == Cardinality({j \in S : j < i})
    IN  Let({i \in 0..63 : InRange(i)}, LAMBDA hits :
        Let({i \in hits : Before(hits, i) < 8}, LAMBDA taken :
            [p EXCEPT
               !.m_scanline_sprites =
                   [k \in 1..Cardinality(taken) |->
                       LET i == CHOOSE j \in taken : Before(taken, j) = k - 1
                       IN  [y |-> ArrGet(p.m_oam, i * 4),
                            tile |-> ArrGet(p.m_oam, (i * 4) + 1),
                            attr |-> ArrGet(p.m_oam, (i * 4) + 2)]],
               !.m_sprite_count = Cardinality(taken),
               !.m_sprite_zero_hit_possible = 0 \in taken,
               !.m_sprite_zero_index = IF 0 \in taken THEN 0 ELSE 0 - 1]))

\* uint16_t PPU::get_sprite_pattern_addr(sprite_slot, hi_byte); slots count
\* from 0
PPU_get_sprite_pattern_addr(p, sprite_slot, hi_byte) ==
    LET height == IF Bit(p.m_ctrl, 5) = 1 THEN 16 ELSE 8
        addr ==
          IF sprite_slot < p.m_sprite_count
          THEN LET sprite == p.m_scanline_sprites[sprite_slot + 1]
                   row0 == U8((p.m_scanline + 1) - sprite.y)
                   row1 == IF Bit(sprite.attr, 7) = 1
                           THEN U8((height - 1) - row0) ELSE row0
               IN  IF height = 16
                   THEN LET a0 == ((sprite.tile % 2) * 4096)
                                  + ((sprite.tile - (sprite.tile % 2)) * 16)
                        IN  IF row1 >= 8 THEN U16(a0 + 16 + (row1 - 8))
                            ELSE U16(a0 + row1)
                   ELSE U16((Bit(p.m_ctrl, 3) * 4096) + (sprite.tile * 16) + row1)
          ELSE IF height = 16 THEN 8176
               ELSE (Bit(p.m_ctrl, 3) * 4096) + 4080
    IN  IF hi_byte THEN U16(addr + 8) ELSE addr

\* The sprite fetch block of dots 257-320: evaluation at dot 257, then per
\* slot a garbage nametable and attribute fetch and the two pattern
\* fetches.  The pattern bytes go to the sprite shifters (pixel output).
PPU_sprite_fetch(p, eval_scanline) ==
    LET sprite_phase == (p.m_cycle - 257) % 8
        sprite_slot == (p.m_cycle - 257) \div 8
    IN  Let(IF p.m_cycle = 257
            THEN PPU_evaluate_sprites_for_next_scanline(p, eval_scanline)
            ELSE p,
            LAMBDA p1 :
        [ppu |-> p1,
         fetch |-> IF sprite_phase = 0 THEN <<8447>>
                   ELSE IF sprite_phase = 2 THEN <<9152>>
                   ELSE IF sprite_phase = 4
                   THEN <<PPU_get_sprite_pattern_addr(p1, sprite_slot, FALSE)>>
                   ELSE IF sprite_phase = 6
                   THEN <<PPU_get_sprite_pattern_addr(p1, sprite_slot, TRUE)>>
                   ELSE <<>>])

\* The rendering part of PPU::step, before the timing advance: the memory
\* fetches of a visible line (0-239) or of the pre-render line (261) and
\* the scroll-register updates.  render_pixel() writes the framebuffer and
\* the sprite shifters only (sprite-0 hit needs non-zero pattern bytes) and
\* is not modelled.  fetch: the address notified to the mapper at this dot.
PPU_render(p, mirror) ==
    LET pre == p.m_scanline = LastScanline
        on == RenderingOn(p.m_mask)
        c == p.m_cycle
        Skip(q) == [ppu |-> q, fetch |-> <<>>]
        \* dots 1-256: background fetches
        S1 == IF c >= 1 /\ c <= 256 /\ ~pre
              THEN Let(PPU_update_shifters(p), LAMBDA q :
                       PPU_background_fetch(q, mirror, TRUE, TRUE))
              ELSE IF c >= 1 /\ c <= 256 /\ on
              THEN PPU_background_fetch(p, mirror, FALSE, FALSE)
              ELSE Skip(p)
        \* dot 256: increment vertical
        Q2(q1) == IF c = 256 /\ on
                  THEN [q1 EXCEPT !.m_v = PPU_increment_vertical(@)]
                  ELSE q1
        \* dot 257: copy the horizontal bits of t
        Q3(q2) == IF c = 257 /\ on
                  THEN [q2 EXCEPT !.m_v = And16(@, 65535 - 1055) + And16(q2.m_t, 1055)]
                  ELSE q2
        \* dots 257-320: sprite fetches
        S4(q3) == IF c >= 257 /\ c <= 320 /\ on
                  THEN PPU_sprite_fetch(q3, IF pre THEN 0 ELSE q3.m_scanline + 1)
                  ELSE Skip(q3)
        \* pre-render dots 280-304: copy the vertical bits of t
        Q5(q4) == IF pre /\ c >= 280 /\ c <= 304 /\ on
                  THEN [q4 EXCEPT !.m_v = And16(@, 65535 - 31712)
                                           + And16(q4.m_t, 31712)]
                  ELSE q4
        \* dots 321-336: the first two tiles of the next line
        S6(q5) == IF c >= 321 /\ c <= 336 /\ on
                  THEN Let(PPU_update_shifters(q5), LAMBDA q :
                           PPU_background_fetch(q, mirror, TRUE, TRUE))
                  ELSE Skip(q5)
        \* dot 337: shift and load
        Q7(q6) == IF c = 337 /\ on
                  THEN Let(PPU_update_shifters(q6), LAMBDA q :
                           PPU_load_background_shifters(q))
                  ELSE q6
        \* dots 337 and 339: dummy nametable fetches
        F8(q7) == IF (c = 337 \/ c = 339) /\ on
                  THEN <<8192 + (q7.m_v % 4096)>> ELSE <<>>
    IN  IF p.m_scanline < 240 \/ pre
        THEN Let(S1, LAMBDA s1 :
             Let(Q3(Q2(s1.ppu)), LAMBDA q3 :
             Let(S4(q3), LAMBDA s4 :
             Let(Q5(s4.ppu), LAMBDA q5 :
             Let(S6(q5), LAMBDA s6 :
             Let(Q7(s6.ppu), LAMBDA q7 :
                 [ppu |-> q7,
                  fetch |-> s1.fetch \o s4.fetch \o s6.fetch \o F8(q7)]))))))
        ELSE Skip(p)

\* void PPU::step(): the rendering part, then the timing part
PPU_step(p, mirror) ==
    Let(PPU_render(p, mirror), LAMBDA r :
    Let(PPU_step_timing(r.ppu), LAMBDA t :
        [ppu |-> t.ppu, frame_start |-> t.frame_start, fetch |-> r.fetch]))

\* The VRAM address increment of a PPUDATA access: 32 or 1 by ctrl bit 2
PPU_vram_increment(p) == IF Bit(p.m_ctrl, 2) = 1 THEN 32 ELSE 1

\* A variant of cpu_read whose NMI suppression window ends at (241,1): a
\* $2002 read at (241,2) is an ordinary read.
PPU_cpu_read_window_one_dot(p, mirror, address) ==
    LET fc == FrameCycle(p)
    IN  IF address = 2 THEN
            LET data == ((p.m_status \div 32) * 32) + (p.m_data_buffer % 32)
                at241 == p.m_scanline = VBlankLine
                p1 == IF at241 /\ p.m_cycle = 0
                      THEN [p EXCEPT !.m_vbl_suppress = TRUE, !.m_suppress_nmi = TRUE]
                      ELSE IF at241 /\ p.m_cycle \in {1}
                      THEN [p EXCEPT !.m_suppress_nmi = TRUE, !.m_nmi_delay = 0]
                      ELSE p
                p2 == [p1 EXCEPT !.m_status = IF Bit(@, 7) = 1 THEN @ - 128 ELSE @]
                p3 == IF at241 /\ p2.m_cycle <= 1
                      THEN [p2 EXCEPT !.m_nmi_delay = 0, !.m_nmi_latched = FALSE,
                                      !.m_nmi_occurred = FALSE]
                      ELSE IF p2.m_nmi_delay = 0
                      THEN [p2 EXCEPT !.m_nmi_occurred = FALSE]
                      ELSE p2
            IN  [ppu |-> [p3 EXCEPT !.m_w = FALSE], data |-> data,
                 notify |-> <<>>, fc |-> fc]
        ELSE IF address = 4 THEN
            [ppu |-> p, data |-> ArrGet(p.m_oam, p.m_oam_addr),
             notify |-> <<>>, fc |-> fc]
        ELSE IF address = 7 THEN
            LET buffered == p.m_data_buffer
                fresh == PPU_ppu_read(p, mirror, p.m_v)
                data == IF p.m_v >= 16128 THEN fresh ELSE buffered
                new_v == U16(p.m_v + PPU_vram_increment(p))
            IN  [ppu |-> [p EXCEPT !.m_data_buffer = fresh, !.m_v = new_v],
                 data |-> data, notify |-> <<new_v>>, fc |-> fc]
        ELSE [ppu |-> p, data |-> 0, notify |-> <<>>, fc |-> fc]

\* uint8_t PPU::cpu_read(address).  notify is the sequence of addresses
\* handed to Bus::notify_ppu_addr_change (with fc, the frame cycle).
PPU_cpu_read(p, mirror, address) ==
    LET fc == FrameCycle(p)
    IN  IF address = 2 THEN
            LET data == ((p.m_status \div 32) * 32) + (p.m_data_buffer % 32)
                at241 == p.m_scanline = VBlankLine
                p1 == IF at241 /\ p.m_cycle = 0
                      THEN [p EXCEPT !.m_vbl_suppress = TRUE, !.m_suppress_nmi = TRUE]
                      ELSE IF at241 /\ p.m_cycle \in {1, 2}
                      THEN [p EXCEPT !.m_suppress_nmi = TRUE, !.m_nmi_delay = 0]
                      ELSE p
                p2 == [p1 EXCEPT !.m_status = IF Bit(@, 7) = 1 THEN @ - 128 ELSE @]
                p3 == IF at241 /\ p2.m_cycle <= 2
                      THEN [p2 EXCEPT !.m_nmi_delay = 0, !.m_nmi_latched = FALSE,
                                      !.m_nmi_occurred = FALSE]
                      ELSE IF p2.m_nmi_delay = 0
                      THEN [p2 EXCEPT !.m_nmi_occurred = FALSE]
                      ELSE p2
            IN  [ppu |-> [p3 EXCEPT !.m_w = FALSE], data |-> data,
                 notify |-> <<>>, fc |-> fc]
        ELSE IF address = 4 THEN
            [ppu |-> p, data |-> ArrGet(p.m_oam, p.m_oam_addr),
             notify |-> <<>>, fc |-> fc]
        ELSE IF address = 7 THEN
            LET buffered == p.m_data_buffer
                fresh == PPU_ppu_read(p, mirror, p.m_v)
                data == IF p.m_v >= 16128 THEN fresh ELSE buffered
                new_v == U16(p.m_v + PPU_vram_increment(p))
            IN  [ppu |-> [p EXCEPT !.m_data_buffer = fresh, !.m_v = new_v],
                 data |-> data, notify |-> <<new_v>>, fc |-> fc]
        ELSE [ppu |-> p, data |-> 0, notify |-> <<>>, fc |-> fc]

\* void PPU::cpu_write(address, value)
PPU_cpu_write(p, mirror, address, value) ==
    LET fc == FrameCycle(p)
        Plain(q) == [ppu |-> q, notify |-> <<>>, fc |-> fc]
    IN  IF address = 0 THEN
            LET was_nmi_enabled == p.m_nmi_output
                out == Bit(value, 7) = 1
                \* m_t = (m_t & ~0x0C00) | ((value & 0x03) << 10)
                t1 == p.m_t - (((p.m_t \div 1024) % 4) * 1024) + ((value % 4) * 1024)
                p1 == [p EXCEPT !.m_ctrl = value, !.m_t = t1, !.m_nmi_output = out]
                p2 == IF was_nmi_enabled /\ ~out /\ p1.m_scanline = VBlankLine
                         /\ p1.m_cycle >= 1 /\ p1.m_cycle <= 2
                      THEN [p1 EXCEPT !.m_nmi_latched = FALSE, !.m_nmi_delay = 0]
                      ELSE p1
                p3 == IF ~was_nmi_enabled /\ out /\ p2.m_nmi_occurred
                         /\ ~p2.m_suppress_nmi
                      THEN [p2 EXCEPT !.m_nmi_triggered_delayed = TRUE]
                      ELSE p2
            IN  Plain(p3)
        ELSE IF address = 1 THEN
            Plain([p EXCEPT !.m_mask_prev = p.m_mask,
                            !.m_mask_write_cycle = fc,
                            !.m_mask = value])
        ELSE IF address = 3 THEN Plain([p EXCEPT !.m_oam_addr = value])
        ELSE IF address = 4 THEN
            Plain([p EXCEPT !.m_oam = ArrSet(@, p.m_oam_addr, value),
                            !.m_oam_addr = U8(@ + 1)])
        ELSE IF address = 5 THEN
            IF ~p.m_w
            THEN \* m_t = (m_t & ~0x001F) | (value >> 3); m_x = value & 7
                 Plain([p EXCEPT !.m_t = @ - (@ % 32) + (value \div 8),
                                 !.m_x = value % 8, !.m_w = TRUE])
            ELSE \* m_t = (m_t & ~0x73E0) | ((value & 7) << 12) | ((value & 0xF8) << 2)
                 LET keep == (p.m_t % 32) + (((p.m_t \div 1024) % 4) * 1024)
                             + ((p.m_t \div 32768) * 32768)
                 IN  Plain([p EXCEPT !.m_t = keep + ((value % 8) * 4096)
                                              + ((value \div 8) * 32),
                                     !.m_w = FALSE])
        ELSE IF address = 6 THEN
            IF ~p.m_w
            THEN \* m_t = (m_t & 0x00FF) | ((value & 0x3F) << 8)
                 Plain([p EXCEPT !.m_t = (@ % 256) + ((value % 64) * 256),
                                 !.m_w = TRUE])
            ELSE \* m_t = (m_t & 0xFF00) | value; m_v = m_t
                 LET t1 == ((p.m_t \div 256) * 256) + value
                 IN  [ppu |-> [p EXCEPT !.m_t = t1, !.m_v = t1, !.m_w = FALSE],
                      notify |-> <<t1>>, fc |-> fc]
        ELSE IF address = 7 THEN
            LET p1 == PPU_ppu_write(p, mirror, p.m_v, value)
                new_v == U16(p.m_v + PPU_vram_increment(p))
            IN  [ppu |-> [p1 EXCEPT !.m_v = new_v], notify |-> <<new_v>>, fc |-> fc]
        ELSE Plain(p)

\* void PPU::oam_write(address, value)
PPU_oam_write(p, address, value) ==
    [p EXCEPT !.m_oam = ArrSet(@, address % 256, value)]

---------------------------------------------------------------------------
(* Mapper004 (MMC3) *)

\* enum class MirrorMode
MirrorHorizontal == 0
MirrorVertical == 1

\* Mapper004::update_banks(): bank offsets from the bank registers
Mapper004_update_banks(m) ==
    LET cnt0 == m.prg_rom_size \div 8192
        prg_bank_count == IF cnt0 = 0 THEN 1 ELSE cnt0
        r6 == U8((m.m_registers[6] % 64) % prg_bank_count)
        r7 == U8((m.m_registers[7] % 64) % prg_bank_count)
        \* (prg_bank_count - 2) % prg_bank_count in uint32_t: with one
        \* bank the difference is 0xFFFFFFFF and the remainder 0
        second_last == IF prg_bank_count >= 2
                       THEN U8((prg_bank_count - 2) % prg_bank_count) ELSE 0
        last == U8((prg_bank_count - 1) % prg_bank_count)
        prg == IF m.m_prg_mode
               THEN <<second_last * 8192, r7 * 8192, r6 * 8192, last * 8192>>
               ELSE <<r6 * 8192, r7 * 8192, second_last * 8192, last * 8192>>
        ccnt0 == m.chr_rom_size \div 1024
        chr_bank_count == IF ccnt0 = 0 THEN 1 ELSE ccnt0
        Even(r) == m.m_registers[r] - (m.m_registers[r] % 2)
        K1(r) == (m.m_registers[r] % chr_bank_count) * 1024
        K2lo(r) == (Even(r) % chr_bank_count) * 1024
        K2hi(r) == ((Even(r) + 1) % chr_bank_count) * 1024
        chr == IF m.m_chr_mode
               THEN <<K1(2), K1(3), K1(4), K1(5), K2lo(0), K2hi(0), K2lo(1), K2hi(1)>>
               ELSE <<K2lo(0), K2hi(0), K2lo(1), K2hi(1), K1(2), K1(3), K1(4), K1(5)>>
    IN  [m EXCEPT !.m_prg_bank = prg,
                  !.m_chr_bank = IF m.chr_rom_size > 0 THEN chr ELSE @]

\* Mapper004::reset() on a cartridge with the given ROM sizes and header
\* mirroring.  m_current_frame_cycle is written by the mapper and never
\* read, so it is not carried in the record.
Mapper004_reset(prg_size, chr_size, mirror) ==
    Mapper004_update_banks(
        [ num |-> 4, prg_rom_size |-> prg_size, chr_rom_size |-> chr_size,
          m_bank_select |-> 0, m_prg_mode |-> FALSE, m_chr_mode |-> FALSE,
          m_registers |-> [i \in 0..7 |-> 0],
          m_prg_bank |-> <<0, 0, 0, 0>>,
          m_chr_bank |-> <<0, 0, 0, 0, 0, 0, 0, 0>>,
          m_irq_counter |-> 0, m_irq_latch |-> 0, m_irq_enabled |-> FALSE,
          m_irq_pending |-> FALSE, m_irq_reload |-> FALSE,
          m_irq_pending_at_cycle |-> 0,
          m_last_a12 |-> FALSE, m_last_a12_cycle |-> 0,
          m_mirror_mode |-> mirror ])

\* The same, with the counter reloaded only when the reload flag is set:
\* at 0 without the flag it is decremented (uint8_t) like any other value.
Mapper004_clock_counter_reload_on_flag_only(m, a12, frame_cycle) ==
    LET rise == a12 /\ ~m.m_last_a12
        cycles_low == IF frame_cycle >= m.m_last_a12_cycle
                      THEN frame_cycle - m.m_last_a12_cycle
                      ELSE frame_cycle + FrameDots - m.m_last_a12_cycle
        clocked == rise /\ cycles_low >= FILTER_THRESHOLD
        m1 == IF ~a12 /\ m.m_last_a12
              THEN [m EXCEPT !.m_last_a12_cycle = frame_cycle]
              ELSE m
        m2 == IF ~clocked THEN m1
              ELSE IF m1.m_irq_reload
                   THEN [m1 EXCEPT !.m_irq_counter = m1.m_irq_latch,
                                   !.m_irq_reload = FALSE]
                   ELSE [m1 EXCEPT !.m_irq_counter = (@ + 255) % 256]
    IN  [mapper |-> [m2 EXCEPT !.m_last_a12 = a12], clocked |-> clocked]

\* Mapper004::clock_counter_on_a12_fast(a12, frame_cycle).  The result
\* holds the new mapper and whether the scanline counter was clocked
\* (the body of "if (cycles_low >= FILTER_THRESHOLD)" ran).
Mapper004_clock_counter_on_a12_fast(m, a12, frame_cycle) ==
    LET rise == a12 /\ ~m.m_last_a12
        cycles_low == IF frame_cycle >= m.m_last_a12_cycle
                      THEN frame_cycle - m.m_last_a12_cycle
                      ELSE frame_cycle + FrameDots - m.m_last_a12_cycle
        clocked == rise /\ cycles_low >= FILTER_THRESHOLD
        m1 == IF ~a12 /\ m.m_last_a12
              THEN [m EXCEPT !.m_last_a12_cycle = frame_cycle]
              ELSE m
        m2 == IF ~clocked THEN m1
              ELSE IF m1.m_irq_counter = 0 \/ m1.m_irq_reload
                   THEN [m1 EXCEPT !.m_irq_counter = m1.m_irq_latch,
                                   !.m_irq_reload = FALSE]
                   ELSE [m1 EXCEPT !.m_irq_counter = @ - 1]
        m3 == IF /\ clocked
                 /\ m2.m_irq_counter = 0 /\ m2.m_irq_enabled
                 /\ m2.m_irq_pending_at_cycle = 0 /\ ~m2.m_irq_pending
              THEN [m2 EXCEPT !.m_irq_pending_at_cycle = frame_cycle]
              ELSE m2
    IN  [mapper |-> [m3 EXCEPT !.m_last_a12 = a12], clocked |-> clocked]

\* Mapper004::notify_ppu_addr_change(old_addr, new_addr, frame_cycle)
Mapper004_notify_ppu_addr_change(m, new_addr, frame_cycle) ==
    IF new_addr % 16384 >= 8192
    THEN [mapper |-> m, clocked |-> FALSE]
    ELSE Mapper004_clock_counter_on_a12_fast(m, Bit(new_addr, 12) = 1, frame_cycle)

\* Mapper004::notify_ppu_address_bus(address, frame_cycle)
Mapper004_notify_ppu_address_bus(m, address, frame_cycle) ==
    IF (Bit(address, 12) = 1) = m.m_last_a12
    THEN [mapper |-> m, clocked |-> FALSE]
    ELSE Mapper004_clock_counter_on_a12_fast(m, Bit(address, 12) = 1, frame_cycle)

\* Mapper004::notify_frame_start()
Mapper004_notify_frame_start(m) ==
    [m EXCEPT !.m_last_a12_cycle = 0, !.m_irq_pending_at_cycle = 0]

\* Mapper004::irq_pending(frame_cycle)
Mapper004_irq_pending(m, frame_cycle) ==
    IF m.m_irq_pending THEN [mapper |-> m, ret |-> TRUE]
    ELSE IF m.m_irq_pending_at_cycle > 0 /\ m.m_irq_enabled
         THEN LET cycles_since_trigger ==
                      IF frame_cycle >= m.m_irq_pending_at_cycle
                      THEN frame_cycle - m.m_irq_pending_at_cycle
                      ELSE frame_cycle + FrameDots - m.m_irq_pending_at_cycle
              IN  IF cycles_since_trigger >= IRQ_DELAY_CYCLES
                  THEN [mapper |-> [m EXCEPT !.m_irq_pending = TRUE,
                                             !.m_irq_pending_at_cycle = 0],
                        ret |-> TRUE]
                  ELSE [mapper |-> m, ret |-> FALSE]
         ELSE [mapper |-> m, ret |-> FALSE]

\* Mapper004::irq_clear()
Mapper004_irq_clear(m) ==
    [m EXCEPT !.m_irq_pending = FALSE, !.m_irq_pending_at_cycle = 0]

\* A variant of Mapper004::cpu_write in which the IRQ-enable register
\* raises the IRQ at once when the counter is already 0.
Mapper004_cpu_write_enable_raises(m, address, value) ==
    IF address < 57344 THEN m
    ELSE IF address % 2 = 0
    THEN [m EXCEPT !.m_irq_enabled = FALSE, !.m_irq_pending = FALSE,
                   !.m_irq_pending_at_cycle = 0]
    ELSE [m EXCEPT !.m_irq_enabled = TRUE,
                   !.m_irq_pending = @ \/ m.m_irq_counter = 0]

\* Mapper004::cpu_write(address, value) for the register range
\* $8000-$FFFF; PRG RAM ($6000-$7FFF) is cartridge memory outside the
\* mapper record and leaves the record unchanged.
Mapper004_cpu_write(m, address, value) ==
    LET even == address % 2 = 0
    IN  IF address < 32768 THEN m
        ELSE IF address < 40960
        THEN IF even
             THEN Mapper004_update_banks(
                      [m EXCEPT !.m_bank_select = value % 8,
                                !.m_prg_mode = Bit(value, 6) = 1,
                                !.m_chr_mode = Bit(value, 7) = 1])
             ELSE Mapper004_update_banks(
                      [m EXCEPT !.m_registers[m.m_bank_select] = value])
        ELSE IF address < 49152
        THEN IF even
             THEN [m EXCEPT !.m_mirror_mode =
                       IF value % 2 = 1 THEN MirrorHorizontal ELSE MirrorVertical]
             ELSE m
        ELSE IF address < 57344
        THEN IF even THEN [m EXCEPT !.m_irq_latch = value]
                     ELSE [m EXCEPT !.m_irq_reload = TRUE]
        ELSE IF even
             THEN [m EXCEPT !.m_irq_enabled = FALSE, !.m_irq_pending = FALSE,
                            !.m_irq_pending_at_cycle = 0]
             ELSE [m EXCEPT !.m_irq_enabled = TRUE]

---------------------------------------------------------------------------
(* Cartridge memory.  PRG ROM and CHR ROM are read-only inputs: byte i of  *)
(* PRG ROM is PrgByte(i), byte i of CHR ROM is ChrByte(i), none of them 0. *)
(* The cartridge's CHR vector is the record cart = [has_chr_ram, chr]:     *)
(* chr holds the bytes written so far, CHR RAM starts zero-filled.         *)
(* uint32_t values that wrapped below zero are kept as negative numbers:   *)
(* v < 0 stands for v + 2^32, which is above every ROM size.               *)

PrgByte(i) == (i % 251) + 1

ChrByte(i) == (i % 241) + 1

\* (*m_chr_rom)[i]
ChrAt(cart, i) ==
    IF i \in DOMAIN cart.chr THEN cart.chr[i]
    ELSE IF cart.has_chr_ram THEN 0 ELSE ChrByte(i)

\* (*m_chr_rom)[i] = value
ChrPut(cart, i, value) ==
    [cart EXCEPT !.chr = [j \in DOMAIN @ \cup {i} |-> IF j = i THEN value ELSE @[j]]]

\* uint8_t Mapper004::cpu_read(address), address >= $8000
Mapper004_cpu_read(m, address) ==
    LET bank == (address - 32768) \div 8192
        offset == m.m_prg_bank[bank + 1] + (address % 8192)
    IN  IF offset < m.prg_rom_size THEN PrgByte(offset) ELSE 0

\* uint8_t Mapper004::ppu_read(address, frame_cycle)
Mapper004_ppu_read(m, cart, address) ==
    IF address < 8192
    THEN LET offset == m.m_chr_bank[(address \div 1024) + 1] + (address % 1024)
         IN  IF offset < m.chr_rom_size THEN ChrAt(cart, offset) ELSE 0
    ELSE 0

\* void Mapper004::ppu_write(address, value): the CHR vector after it
Mapper004_ppu_write(m, cart, address, value) ==
    IF ~cart.has_chr_ram THEN cart
    ELSE IF address < 8192
    THEN LET offset == m.m_chr_bank[(address \div 1024) + 1] + (address % 1024)
         IN  IF offset < m.chr_rom_size THEN ChrPut(cart, offset, value) ELSE cart
    ELSE cart

\* Mapper007::Mapper007 and Mapper007::reset(); m_mirror_mode 2 is
\* MirrorMode::SingleScreen0, 3 SingleScreen1
Mapper007_reset(prg_size, chr_size) ==
    LET num_banks == prg_size \div 32768
        bank == IF num_banks > 0 THEN U8(num_banks - 1) ELSE 0
    IN  [ num |-> 7, prg_rom_size |-> prg_size, chr_rom_size |-> chr_size,
          m_prg_bank |-> bank, m_prg_bank_offset |-> bank * 32768,
          m_mirror_mode |-> 2 ]

\* uint8_t Mapper007::cpu_read(address), address >= $8000
Mapper007_cpu_read(m, address) ==
    LET offset == m.m_prg_bank_offset + (address % 32768)
    IN  IF offset < m.prg_rom_size THEN PrgByte(offset) ELSE 0

\* A bank select that takes b * 0x8000 as the offset, without the modulo.
Mapper007_cpu_write_no_modulo(m, address, value) ==
    IF address >= 32768
    THEN [m EXCEPT !.m_prg_bank = value % 16,
                   !.m_prg_bank_offset = (value % 16) * 32768,
                   !.m_mirror_mode = IF Bit(value, 4) = 1 THEN 3 ELSE 2]
    ELSE m

\* void Mapper007::cpu_write(address, value)
Mapper007_cpu_write(m, address, value) ==
    IF address >= 32768
    THEN [m EXCEPT !.m_prg_bank = value % 16,
                   !.m_prg_bank_offset = ((value % 16) * 32768) % m.prg_rom_size,
                   !.m_mirror_mode = IF Bit(value, 4) = 1 THEN 3 ELSE 2]
    ELSE m

\* uint8_t Mapper007::ppu_read(address)
Mapper007_ppu_read(m, cart, address) ==
    IF address < 8192 /\ m.chr_rom_size > 0 THEN ChrAt(cart, address) ELSE 0

\* void Mapper007::ppu_write(address, value): the CHR vector after it
Mapper007_ppu_write(m, cart, address, value) ==
    IF address < 8192 /\ m.chr_rom_size > 0 THEN ChrPut(cart, address, value)
    ELSE cart

\* void Mapper009::update_chr_banks()
Mapper009_update_chr_banks(m) ==
    LET bank_0 == IF m.m_latch_0 THEN m.m_chr_bank_0_fe ELSE m.m_chr_bank_0_fd
        bank_1 == IF m.m_latch_1 THEN m.m_chr_bank_1_fe ELSE m.m_chr_bank_1_fd
    IN  [m EXCEPT !.m_chr_bank_0_offset = (bank_0 * 4096) % m.chr_rom_size,
                  !.m_chr_bank_1_offset = (bank_1 * 4096) % m.chr_rom_size]

\* Mapper009::Mapper009 and Mapper009::reset()
Mapper009_reset(prg_size, chr_size, mirror) ==
    Mapper009_update_chr_banks(
        [ num |-> 9, prg_rom_size |-> prg_size, chr_rom_size |-> chr_size,
          m_prg_bank |-> 0, m_prg_bank_offset |-> 0,
          m_prg_fixed_offset |-> prg_size - (3 * 8192),
          m_chr_bank_0_fd |-> 0, m_chr_bank_0_fe |-> 0,
          m_chr_bank_1_fd |-> 0, m_chr_bank_1_fe |-> 0,
          m_latch_0 |-> TRUE, m_latch_1 |-> TRUE,
          m_chr_bank_0_offset |-> 0, m_chr_bank_1_offset |-> 0,
          m_mirror_mode |-> mirror ])

\* uint8_t Mapper009::cpu_read(address), address >= $8000
Mapper009_cpu_read(m, address) ==
    LET offset == IF address < 40960
                  THEN m.m_prg_bank_offset + (address % 8192)
                  ELSE m.m_prg_fixed_offset + (address - 40960)
    IN  IF offset >= 0 /\ offset < m.prg_rom_size THEN PrgByte(offset) ELSE 0

\* void Mapper009::cpu_write(address, value), address >= $8000
Mapper009_cpu_write(m, address, value) ==
    IF address < 40960 THEN m
    ELSE IF address < 45056
    THEN [m EXCEPT !.m_prg_bank = value % 16,
                   !.m_prg_bank_offset = ((value % 16) * 8192) % m.prg_rom_size]
    ELSE IF address < 49152
    THEN Mapper009_update_chr_banks([m EXCEPT !.m_chr_bank_0_fd = value % 32])
    ELSE IF address < 53248
    THEN Mapper009_update_chr_banks([m EXCEPT !.m_chr_bank_0_fe = value % 32])
    ELSE IF address < 57344
    THEN Mapper009_update_chr_banks([m EXCEPT !.m_chr_bank_1_fd = value % 32])
    ELSE IF address < 61440
    THEN Mapper009_update_chr_banks([m EXCEPT !.m_chr_bank_1_fe = value % 32])
    ELSE [m EXCEPT !.m_mirror_mode =
              IF value % 2 = 1 THEN MirrorHorizontal ELSE MirrorVertical]

\* Mapper009::ppu_read with latch 0 switched by the ranges $0FD8-$0FDF and
\* $0FE8-$0FEF, as latch 1 is
Mapper009_ppu_read_latch_0_range(m, cart, address) ==
    IF address >= 8192 THEN [mapper |-> m, data |-> 0]
    ELSE LET masked == (address % 4096) - (address % 8)
             low == address < 4096
             off == IF low THEN m.m_chr_bank_0_offset ELSE m.m_chr_bank_1_offset
             m1 == IF masked = 4056
                   THEN (IF low THEN [m EXCEPT !.m_latch_0 = FALSE]
                                ELSE [m EXCEPT !.m_latch_1 = FALSE])
                   ELSE IF masked = 4072
                   THEN (IF low THEN [m EXCEPT !.m_latch_0 = TRUE]
                                ELSE [m EXCEPT !.m_latch_1 = TRUE])
                   ELSE m
         IN  [mapper |-> Mapper009_update_chr_banks(m1),
              data |-> ChrAt(cart, (off + (address % 4096)) % m.chr_rom_size)]

\* uint8_t Mapper009::ppu_read(address, frame_cycle): the mapper after the
\* latch update, and the byte
Mapper009_ppu_read(m, cart, address) ==
    IF address >= 8192 THEN [mapper |-> m, data |-> 0]
    ELSE IF address < 4096
    THEN [mapper |-> IF address = 4056
                     THEN Mapper009_update_chr_banks([m EXCEPT !.m_latch_0 = FALSE])
                     ELSE IF address = 4072
                     THEN Mapper009_update_chr_banks([m EXCEPT !.m_latch_0 = TRUE])
                     ELSE m,
          data |-> ChrAt(cart, (m.m_chr_bank_0_offset + (address % 4096))
                                   % m.chr_rom_size)]
    ELSE LET masked == (address % 4096) - (address % 8)
         IN  [mapper |-> IF masked = 4056
                         THEN Mapper009_update_chr_banks([m EXCEPT !.m_latch_1 = FALSE])
                         ELSE IF masked = 4072
                         THEN Mapper009_update_chr_banks([m EXCEPT !.m_latch_1 = TRUE])
                         ELSE m,
              data |-> ChrAt(cart, (m.m_chr_bank_1_offset + (address % 4096))
                                       % m.chr_rom_size)]

\* void Mapper009::ppu_write(address, value): the CHR vector after it
Mapper009_ppu_write(m, cart, address, value) ==
    IF address < 8192 /\ cart.has_chr_ram
    THEN LET base == IF address < 4096 THEN m.m_chr_bank_0_offset
                     ELSE m.m_chr_bank_1_offset
         IN  ChrPut(cart, (base + (address % 4096)) % m.chr_rom_size, value)
    ELSE cart

\* Mapper010::update_chr_banks
Mapper010_update_chr_banks(m) ==
    LET bank_0 == IF m.m_latch_0 THEN m.m_chr_bank_0_fe ELSE m.m_chr_bank_0_fd
        bank_1 == IF m.m_latch_1 THEN m.m_chr_bank_1_fe ELSE m.m_chr_bank_1_fd
    IN  [m EXCEPT !.m_chr_bank_0_offset = (bank_0 * 4096) % m.chr_rom_size,
                  !.m_chr_bank_1_offset = (bank_1 * 4096) % m.chr_rom_size]

\* Mapper010::Mapper010 and Mapper010::reset()
Mapper010_reset(prg_size, chr_size, mirror) ==
    Mapper010_update_chr_banks(
        [ num |-> 10, prg_rom_size |-> prg_size, chr_rom_size |-> chr_size,
          m_prg_bank |-> 0, m_prg_bank_offset |-> 0,
          m_prg_fixed_offset |-> prg_size - 16384,
          m_chr_bank_0_fd |-> 0, m_chr_bank_0_fe |-> 0,
          m_chr_bank_1_fd |-> 0, m_chr_bank_1_fe |-> 0,
          m_latch_0 |-> TRUE, m_latch_1 |-> TRUE,
          m_chr_bank_0_offset |-> 0, m_chr_bank_1_offset |-> 0,
          m_mirror_mode |-> mirror ])

\* void Mapper010::cpu_write(address, value), address >= $8000
Mapper010_cpu_write(m, address, value) ==
    IF address < 40960 THEN m
    ELSE IF address < 45056
    THEN [m EXCEPT !.m_prg_bank = value % 16,
                   !.m_prg_bank_offset = ((value % 16) * 16384) % m.prg_rom_size]
    ELSE IF address < 49152
    THEN Mapper010_update_chr_banks([m EXCEPT !.m_chr_bank_0_fd = value % 32])
    ELSE IF address < 53248
    THEN Mapper010_update_chr_banks([m EXCEPT !.m_chr_bank_0_fe = value % 32])
    ELSE IF address < 57344
    THEN Mapper010_update_chr_banks([m EXCEPT !.m_chr_bank_1_fd = value % 32])
    ELSE IF address < 61440
    THEN Mapper010_update_chr_banks([m EXCEPT !.m_chr_bank_1_fe = value % 32])
    ELSE [m EXCEPT !.m_mirror_mode =
              IF value % 2 = 1 THEN MirrorHorizontal ELSE MirrorVertical]

\* uint8_t Mapper010::ppu_read(address, frame_cycle): the mapper after the
\* latch update, and the byte
Mapper010_ppu_read(m, cart, address) ==
    IF address >= 8192 THEN [mapper |-> m, data |-> 0]
    ELSE LET masked == (address % 4096) - (address % 8)
         IN  IF address < 4096
             THEN [mapper |-> IF masked = 4056
                              THEN Mapper010_update_chr_banks([m EXCEPT !.m_latch_0 = FALSE])
                              ELSE IF masked = 4072
                              THEN Mapper010_update_chr_banks([m EXCEPT !.m_latch_0 = TRUE])
                              ELSE m,
                   data |-> ChrAt(cart, (m.m_chr_bank_0_offset + (address % 4096))
                                            % m.chr_rom_size)]
             ELSE [mapper |-> IF masked = 4056
                              THEN Mapper010_update_chr_banks([m EXCEPT !.m_latch_1 = FALSE])
                              ELSE IF masked = 4072
                              THEN Mapper010_update_chr_banks([m EXCEPT !.m_latch_1 = TRUE])
                              ELSE m,
                   data |-> ChrAt(cart, (m.m_chr_bank_1_offset + (address % 4096))
                                            % m.chr_rom_size)]

\* void Mapper010::ppu_write(address, value): the CHR vector after it
Mapper010_ppu_write(m, cart, address, value) ==
    IF address < 8192 /\ cart.has_chr_ram
    THEN LET base == IF address < 4096 THEN m.m_chr_bank_0_offset
                     ELSE m.m_chr_bank_1_offset
         IN  ChrPut(cart, (base + (address % 4096)) % m.chr_rom_size, value)
    ELSE cart

---------------------------------------------------------------------------
(* Cartridge: forwards to the mapper; mappers other than Mapper004 keep   *)
(* the base-class no-ops of mapper.hpp for IRQ and A12 notifications.     *)

Cartridge_notify_ppu_addr_change(m, new_addr, frame_cycle) ==
    IF m.num = 4 THEN Mapper004_notify_ppu_addr_change(m, new_addr, frame_cycle)
    ELSE [mapper |-> m, clocked |-> FALSE]

Cartridge_notify_ppu_address_bus(m, address, frame_cycle) ==
    IF m.num = 4 THEN Mapper004_notify_ppu_address_bus(m, address, frame_cycle)
    ELSE [mapper |-> m, clocked |-> FALSE]

Cartridge_notify_frame_start(m) ==
    IF m.num = 4 THEN Mapper004_notify_frame_start(m) ELSE m

Cartridge_irq_pending(m, frame_cycle) ==
    IF m.num = 4 THEN Mapper004_irq_pending(m, frame_cycle)
    ELSE [mapper |-> m, ret |-> FALSE]

Cartridge_irq_clear(m) ==
    IF m.num = 4 THEN Mapper004_irq_clear(m) ELSE m

Cartridge_cpu_write(m, address, value) ==
    IF m.num = 4 THEN Mapper004_cpu_write(m, address, value)
    ELSE IF m.num = 7 THEN Mapper007_cpu_write(m, address, value)
    ELSE IF m.num = 9 THEN Mapper009_cpu_write(m, address, value)
    ELSE IF m.num = 10 THEN Mapper010_cpu_write(m, address, value)
    ELSE m

\* Cartridge::cpu_read(address) for PRG ROM space
Cartridge_cpu_read(m, address) ==
    IF m.num = 4 THEN Mapper004_cpu_read(m, address)
    ELSE IF m.num = 7 THEN Mapper007_cpu_read(m, address)
    ELSE Mapper009_cpu_read(m, address)

\* Cartridge::ppu_read(address, frame_cycle): the mapper after it, and the
\* byte
Cartridge_ppu_read(m, cart, address) ==
    IF m.num = 4 THEN [mapper |-> m, data |-> Mapper004_ppu_read(m, cart, address)]
    ELSE IF m.num = 7 THEN [mapper |-> m, data |-> Mapper007_ppu_read(m, cart, address)]
    ELSE IF m.num = 10 THEN Mapper010_ppu_read(m, cart, address)
    ELSE Mapper009_ppu_read(m, cart, address)

\* Cartridge::ppu_write(address, value): the CHR vector after it
Cartridge_ppu_write(m, cart, address, value) ==
    IF m.num = 4 THEN Mapper004_ppu_write(m, cart, address, value)
    ELSE IF m.num = 7 THEN Mapper007_ppu_write(m, cart, address, value)
    ELSE IF m.num = 10 THEN Mapper010_ppu_write(m, cart, address, value)
    ELSE Mapper009_ppu_write(m, cart, address, value)

\* Cartridge::get_mirror_mode(), as the int Bus::get_mirror_mode returns
Cartridge_get_mirror_mode(m) == m.m_mirror_mode

---------------------------------------------------------------------------
(* Bus.  A machine M is the record [cpu, ppu, apu, bus, mapper] of the    *)
(* connected components.  Operators that can reach the mapper's A12 input *)
(* also return ev, the sequence of A12 notifications they made: each      *)
(* [addr, fc, clocked] with clocked the mapper's reaction.                *)

Bus_new ==
    [ m_ram |-> ZeroArray,
      m_controller_state |-> <<0, 0>>,
      m_controller_shift |-> <<0, 0>>,
      m_controller_strobe |-> FALSE,
      m_pending_dma_cycles |-> 0 ]

\* Bus::notify_ppu_addr_change for each address the PPU register access
\* reported (at most one).
Bus_notify_ppu_addr_change(M, notify, fc) ==
    IF notify = <<>> THEN [m |-> M, ev |-> <<>>]
    ELSE Let(Cartridge_notify_ppu_addr_change(M.mapper, notify[1], fc), LAMBDA r :
             [m |-> [M EXCEPT !.mapper = r.mapper],
              ev |-> <<[addr |-> notify[1], fc |-> fc, clocked |-> r.clocked]>>])

\* uint8_t Bus::read_controller(controller), controller in {0, 1}
Bus_read_controller(b, controller) ==
    LET sh == b.m_controller_shift[controller + 1]
        data == sh % 2
        sh1 == (sh \div 2) + (IF sh \div 2 < 128 THEN 128 ELSE 0)
    IN  [bus |-> [b EXCEPT !.m_controller_shift[controller + 1] = sh1],
         data |-> data + 64]

\* uint8_t Bus::cpu_read(address), for RAM, PPU registers, controller
\* ports and cartridge space (zero-filled ROM).  APU register reads are
\* not issued by the modelled instruction streams.
Bus_cpu_read(M, address) ==
    IF address < 8192
    THEN [m |-> M, data |-> ArrGet(M.bus.m_ram, address % 2048), ev |-> <<>>]
    ELSE IF address < 16384
    THEN Let(PPU_cpu_read(M.ppu, Cartridge_get_mirror_mode(M.mapper),
                          address % 8), LAMBDA r :
         Let(Bus_notify_ppu_addr_change([M EXCEPT !.ppu = r.ppu],
                                        r.notify, r.fc), LAMBDA n :
             [m |-> n.m, data |-> r.data, ev |-> n.ev]))
    ELSE IF address \in {16406, 16407}
    THEN LET r == Bus_read_controller(M.bus, address - 16406)
         IN  [m |-> [M EXCEPT !.bus = r.bus], data |-> r.data, ev |-> <<>>]
    ELSE [m |-> M, data |-> 0, ev |-> <<>>]

\* void Bus::oam_dma(page): 256 reads from the CPU page copied into OAM.
\* Pages are taken from internal RAM ($00-$1F), where the reads have no
\* side effect.
Bus_oam_dma(M, page) ==
    LET src(i) == ArrGet(M.bus.m_ram, ((page * 256) + i) % 2048)
        nz == {i \in 0..255 : src(i) # 0}
    IN  [M EXCEPT !.ppu.m_oam = [i \in nz |-> src(i)],
                  !.bus.m_pending_dma_cycles = 513]

\* void Bus::cpu_write(address, value).  APU register writes are not
\* issued by the modelled instruction streams.
Bus_cpu_write(M, address, value) ==
    IF address < 8192
    THEN [m |-> [M EXCEPT !.bus.m_ram = ArrSet(@, address % 2048, value)],
          ev |-> <<>>]
    ELSE IF address < 16384
    THEN Let(PPU_cpu_write(M.ppu, Cartridge_get_mirror_mode(M.mapper),
                           address % 8, value), LAMBDA r :
             Bus_notify_ppu_addr_change([M EXCEPT !.ppu = r.ppu], r.notify, r.fc))
    ELSE IF address = 16404
    THEN [m |-> Bus_oam_dma(M, value), ev |-> <<>>]
    ELSE IF address = 16406
    THEN LET strobe == value % 2 = 1
         IN  [m |-> [M EXCEPT !.bus.m_controller_strobe = strobe,
                              !.bus.m_controller_shift =
                                  IF strobe
                                  THEN <<U8(M.bus.m_controller_state[1]),
                                         U8(M.bus.m_controller_state[2])>>
                                  ELSE @],
              ev |-> <<>>]
    ELSE IF address < 16416
    THEN [m |-> M, ev |-> <<>>]
    ELSE [m |-> [M EXCEPT !.mapper = Cartridge_cpu_write(@, address, value)],
          ev |-> <<>>]

\* The button byte with Select taken from 0x040 and Start from 0x080.
Bus_nes_buttons_select_start_swapped(buttons) ==
      Bit(buttons, 0) + (2 * Bit(buttons, 1)) + (4 * Bit(buttons, 6))
    + (8 * Bit(buttons, 7)) + (16 * Bit(buttons, 8)) + (32 * Bit(buttons, 9))
    + (64 * Bit(buttons, 10)) + (128 * Bit(buttons, 11))

\* The NES button byte Bus::set_controller_state builds from the host's
\* VirtualButton mask.
Bus_nes_buttons(buttons) ==
      Bit(buttons, 0) + (2 * Bit(buttons, 1)) + (4 * Bit(buttons, 7))
    + (8 * Bit(buttons, 6)) + (16 * Bit(buttons, 8)) + (32 * Bit(buttons, 9))
    + (64 * Bit(buttons, 10)) + (128 * Bit(buttons, 11))

\* void Bus::set_controller_state(controller, buttons)
Bus_set_controller_state(b, controller, buttons) ==
    IF controller >= 0 /\ controller < 2
    THEN [b EXCEPT !.m_controller_state[controller + 1] = Bus_nes_buttons(buttons)]
    ELSE b

---------------------------------------------------------------------------
(* CPU.  The opcode stream is an input of the model: an instruction is a  *)
(* record [kind, cyc, addr, val] giving the bus access the opcode makes   *)
(* and the value CPU::step assigns to `cycles` for it.                    *)

\* the values the switch of CPU::step assigns to `cycles`
CycleCounts == 2..7

CPU_new ==
    [ m_pc |-> 0, m_a |-> 0, m_x |-> 0, m_y |-> 0, m_sp |-> 253,
      m_status |-> 36, m_nmi_pending |-> FALSE, m_irq_pending |-> FALSE ]

\* CPU::reset(); the reset vector is read from the zero-filled PRG ROM
CPU_reset(c) == CPU_new

\* A flag test that never finds I set.
CPU_flag_I_never_set(c) == FALSE

\* get_flag(FLAG_I)
CPU_flag_I(c) == Bit(c.m_status, 2) = 1

\* void CPU::push(value)
CPU_push(M, value) ==
    Let(Bus_cpu_write(M, 256 + M.cpu.m_sp, value).m, LAMBDA w :
        [w EXCEPT !.cpu.m_sp = U8(@ - 1)])

\* An interrupt entry that pushes the status byte with B set.
CPU_interrupt_pushes_B(M) ==
    LET c == M.cpu
    IN  Let(CPU_push(M, c.m_pc \div 256), LAMBDA m1 :
        Let(CPU_push(m1, c.m_pc % 256), LAMBDA m2 :
        Let(CPU_push(m2, c.m_status + (16 * (1 - Bit(c.m_status, 4)))), LAMBDA m3 :
            [m3 EXCEPT !.cpu.m_status = @ + (4 * (1 - Bit(@, 2))),
                       !.cpu.m_pc = 0])))

\* The common body of the NMI and IRQ entries of CPU::step: push PC and
\* status (B clear), set I, load PC from the vector (zero-filled ROM).
CPU_interrupt(M) ==
    LET c == M.cpu
    IN  Let(CPU_push(M, c.m_pc \div 256), LAMBDA m1 :
        Let(CPU_push(m1, c.m_pc % 256), LAMBDA m2 :
        Let(CPU_push(m2, c.m_status - (16 * Bit(c.m_status, 4))), LAMBDA m3 :
            [m3 EXCEPT !.cpu.m_status = @ + (4 * (1 - Bit(@, 2))),
                       !.cpu.m_pc = 0])))

\* update_zero_negative(value) on the status byte
CPU_update_zero_negative(status, value) ==
    LET s1 == status - (2 * Bit(status, 1)) - (128 * Bit(status, 7))
    IN  s1 + (IF value = 0 THEN 2 ELSE 0) + (128 * Bit(value, 7))

\* A variant of CPU::step in which the opcodes without a bus access
\* return a cycle count of 0.
CPU_step_zero_cycles(M, ins) ==
    IF M.cpu.m_nmi_pending
    THEN [m |-> CPU_interrupt([M EXCEPT !.cpu.m_nmi_pending = FALSE]),
          cycles |-> InterruptCycles, ev |-> <<>>]
    ELSE IF M.cpu.m_irq_pending /\ ~CPU_flag_I(M.cpu)
    THEN [m |-> CPU_interrupt([M EXCEPT !.cpu.m_irq_pending = FALSE]),
          cycles |-> InterruptCycles, ev |-> <<>>]
    ELSE IF ins.kind = "store"
    THEN Let(Bus_cpu_write(M, ins.addr, ins.val), LAMBDA w :
             [m |-> w.m, cycles |-> ins.cyc, ev |-> w.ev])
    ELSE [m |-> M, cycles |-> 0, ev |-> <<>>]

\* int CPU::step(): interrupt entries first, then one instruction.
CPU_step(M, ins) ==
    IF M.cpu.m_nmi_pending
    THEN [m |-> CPU_interrupt([M EXCEPT !.cpu.m_nmi_pending = FALSE]),
          cycles |-> InterruptCycles, ev |-> <<>>]
    ELSE IF M.cpu.m_irq_pending /\ ~CPU_flag_I(M.cpu)
    THEN [m |-> CPU_interrupt([M EXCEPT !.cpu.m_irq_pending = FALSE]),
          cycles |-> InterruptCycles, ev |-> <<>>]
    ELSE IF ins.kind = "store"
    THEN Let(Bus_cpu_write(M, ins.addr, ins.val), LAMBDA w :
             [m |-> w.m, cycles |-> ins.cyc, ev |-> w.ev])
    ELSE IF ins.kind = "load"
    THEN Let(Bus_cpu_read(M, ins.addr), LAMBDA r :
             [m |-> [r.m EXCEPT !.cpu.m_a = r.data,
                                !.cpu.m_status = CPU_update_zero_negative(@, r.data)],
              cycles |-> ins.cyc, ev |-> r.ev])
    ELSE IF ins.kind = "sei"
    THEN [m |-> [M EXCEPT !.cpu.m_status = @ + (4 * (1 - Bit(@, 2)))],
          cycles |-> ins.cyc, ev |-> <<>>]
    ELSE IF ins.kind = "cli"
    THEN [m |-> [M EXCEPT !.cpu.m_status = @ - (4 * Bit(@, 2))],
          cycles |-> ins.cyc, ev |-> <<>>]
    ELSE [m |-> M, cycles |-> ins.cyc, ev |-> <<>>]

\* void CPU::trigger_nmi()
CPU_trigger_nmi(c) == [c EXCEPT !.m_nmi_pending = TRUE]

\* void CPU::trigger_irq()
CPU_trigger_irq(c) == [c EXCEPT !.m_irq_pending = TRUE]

---------------------------------------------------------------------------
(* Savestates.  A blob is a sequence of bytes.  Every save_state and      *)
(* every load_state is given by the fields its statements write or read,  *)
(* in statement order, each with the sizeof of its type.                  *)

\* rec.name, an integer of w bytes (uintN_t, an int that is never negative,
\* or a float's bit pattern)
Field(name, w) ==
    [name |-> name, idx |-> 0 - 1, sub |-> "", w |-> w, kind |-> "value"]

\* rec.name, a bool that travels as a uint8_t: "x ? 1 : 0" when written,
\* "local != 0" when read
Flag(name) == [Field(name, 1) EXCEPT !.kind = "flag"]

\* rec.name, a byte array of the given size (write_array / read_array)
Array(name, size) == [Field(name, size) EXCEPT !.kind = "array"]

\* rec.name[i]
At(f, i) == [f EXCEPT !.idx = i]

\* the member f of the struct rec.name: rec.name.f
In(name, f) == [f EXCEPT !.name = name, !.sub = f.name]

FieldSet(rec, f, v) ==
    IF f.idx < 0
    THEN (IF f.sub = "" THEN [rec EXCEPT ![f.name] = v]
          ELSE [rec EXCEPT ![f.name][f.sub] = v])
    ELSE (IF f.sub = "" THEN [rec EXCEPT ![f.name][f.idx] = v]
          ELSE [rec EXCEPT ![f.name][f.idx][f.sub] = v])

\* the unsigned value of the little-endian bytes b; a value of 2^31 or
\* more has no image here and stops the evaluation
Unsigned(b) ==
    LET B(i) == IF i <= Len(b) THEN b[i] ELSE 0
    IN  B(1) + (256 * B(2)) + (65536 * B(3)) + (16777216 * B(4))
          + (((B(5) + B(6) + B(7) + B(8)) * 16777216) * 256)

\* the bytes write_value / write_array / push_back append for field f:
\* little-endian; the wide values of the model are below 2^31
FieldBytes(rec, f) ==
    LET Get == IF f.idx < 0
               THEN (IF f.sub = "" THEN rec[f.name] ELSE rec[f.name][f.sub])
               ELSE (IF f.sub = "" THEN rec[f.name][f.idx]
                     ELSE rec[f.name][f.idx][f.sub])
        Byte(v, i) == IF i > 4 THEN 0 ELSE (v \div (256 ^ (i - 1))) % 256
    IN  Let(Get, LAMBDA v :
            IF f.kind = "flag" THEN <<IF v THEN 1 ELSE 0>>
            ELSE IF f.kind = "array" THEN [i \in 1..f.w |-> ArrGet(v, i - 1)]
            ELSE [i \in 1..f.w |-> Byte(v, i)])

\* the value of field f that the bytes b hold
FieldValue(b, f) ==
    IF f.kind = "flag" THEN b[1] # 0
    ELSE IF f.kind = "array"
    THEN [j \in {i \in 0..(f.w - 1) : b[i + 1] # 0} |-> b[j + 1]]
    ELSE Unsigned(b)

\* the bytes a save_state with the statements `fields` appends for rec
WriteFields(rec, fields) ==
    LET RECURSIVE W(_, _)
        W(lo, hi) ==
            IF lo > hi THEN <<>>
            ELSE IF lo = hi THEN FieldBytes(rec, fields[lo])
            ELSE W(lo, (lo + hi) \div 2) \o W(((lo + hi) \div 2) + 1, hi)
    IN  W(1, Len(fields))

\* What a load_state works on: the blob, the read pointer (pos bytes
\* behind the start), the bytes remaining, and the component being loaded
\* (rec).  junk is the value an uninitialized local or a byte behind the
\* end of the blob turns out to hold; flag is the local the last bool was
\* read into; mode tells how the load_state reads (see ReadFields).
Reader(data, junk) ==
    [ data |-> data, pos |-> 0, remaining |-> Len(data),
      junk |-> junk, flag |-> junk, mode |-> "own", rec |-> <<>> ]

\* read_value / read_array into field f.  When fewer than sizeof bytes
\* remain the call returns false, which no caller looks at: the pointer
\* and the field stay, and a bool field is then assigned from its local,
\* which the call did not write.
read_value(s, f) ==
    IF s.remaining < f.w
    THEN (IF f.kind # "flag" THEN s
          ELSE IF s.mode = "shared" THEN [s EXCEPT !.rec = FieldSet(@, f, s.flag # 0)]
          ELSE [s EXCEPT !.rec = FieldSet(@, f, s.junk # 0)])
    ELSE Let(SubSeq(s.data, s.pos + 1, s.pos + f.w), LAMBDA b :
             [s EXCEPT !.rec = FieldSet(@, f, FieldValue(b, f)),
                       !.pos = @ + f.w,
                       !.remaining = @ - f.w,
                       !.flag = IF f.kind = "flag" THEN b[1] ELSE @])

\* "x = *data++; remaining--;" for field f, without a test of remaining.
\* Behind the end of the blob the byte read is junk; remaining, a size_t,
\* wraps around, written here as a negative number.
TakeByte(s, f) ==
    Let(IF s.pos < Len(s.data) THEN s.data[s.pos + 1] ELSE s.junk, LAMBDA b :
        [s EXCEPT !.rec = FieldSet(@, f, FieldValue(<<b>>, f)),
                  !.pos = @ + 1,
                  !.remaining = @ - 1])

\* The statements `fields` of the load_state of component c, continuing
\* the reader s.  mode "own": read_value, every bool through an
\* uninitialized local of its own; "shared": read_value, every bool
\* through the one uninitialized local "flag"; "raw": TakeByte.
ReadFields(s, c, fields, mode) ==
    LET RECURSIVE R(_, _, _)
        R(t, lo, hi) ==
            IF lo > hi THEN t
            ELSE IF lo = hi
            THEN (IF mode = "raw" THEN TakeByte(t, fields[lo])
                  ELSE read_value(t, fields[lo]))
            ELSE Let(R(t, lo, (lo + hi) \div 2), LAMBDA u :
                     R(u, ((lo + hi) \div 2) + 1, hi))
    IN  Let([s EXCEPT !.rec = c, !.flag = s.junk, !.mode = mode], LAMBDA t :
            R(t, 1, Len(fields)))

\* the statements of CPU::save_state
CPU_save_state ==
    << Field("m_pc", 2), Field("m_a", 1), Field("m_x", 1), Field("m_y", 1),
       Field("m_sp", 1), Field("m_status", 1),
       Flag("m_nmi_pending"), Flag("m_irq_pending") >>

\* CPU::load_state
CPU_load_state(c, s) ==
    ReadFields(s, c,
        << Field("m_pc", 2), Field("m_a", 1), Field("m_x", 1), Field("m_y", 1),
           Field("m_sp", 1), Field("m_status", 1),
           Flag("m_nmi_pending"), Flag("m_irq_pending") >>, "own")

\* the statements of PPU::save_state
PPU_save_state ==
    << Field("m_ctrl", 1), Field("m_mask", 1), Field("m_status", 1),
       Field("m_oam_addr", 1),
       Field("m_v", 2), Field("m_t", 2), Field("m_x", 1), Flag("m_w"),
       Field("m_data_buffer", 1),
       Field("m_scanline", 4), Field("m_cycle", 4), Field("m_frame", 8),
       Flag("m_odd_frame"),
       Flag("m_nmi_occurred"), Flag("m_nmi_output"),
       Field("m_bg_shifter_pattern_lo", 2), Field("m_bg_shifter_pattern_hi", 2),
       Field("m_bg_shifter_attrib_lo", 2), Field("m_bg_shifter_attrib_hi", 2),
       Field("m_bg_next_tile_id", 1), Field("m_bg_next_tile_attrib", 1),
       Field("m_bg_next_tile_lo", 1), Field("m_bg_next_tile_hi", 1),
       Array("m_oam", 256), Array("m_nametable", 2048), Array("m_palette", 32),
       Field("m_mirroring", 4) >>

\* PPU::load_state: the reads, then the fields it resets
PPU_load_state(p, s) ==
    Let(ReadFields(s, p,
        << Field("m_ctrl", 1), Field("m_mask", 1), Field("m_status", 1),
           Field("m_oam_addr", 1),
           Field("m_v", 2), Field("m_t", 2), Field("m_x", 1), Flag("m_w"),
           Field("m_data_buffer", 1),
           Field("m_scanline", 4), Field("m_cycle", 4), Field("m_frame", 8),
           Flag("m_odd_frame"),
           Flag("m_nmi_occurred"), Flag("m_nmi_output"),
           Field("m_bg_shifter_pattern_lo", 2), Field("m_bg_shifter_pattern_hi", 2),
           Field("m_bg_shifter_attrib_lo", 2), Field("m_bg_shifter_attrib_hi", 2),
           Field("m_bg_next_tile_id", 1), Field("m_bg_next_tile_attrib", 1),
           Field("m_bg_next_tile_lo", 1), Field("m_bg_next_tile_hi", 1),
           Array("m_oam", 256), Array("m_nametable", 2048), Array("m_palette", 32),
           Field("m_mirroring", 4) >>, "own"), LAMBDA t :
        [t EXCEPT !.rec = [@ EXCEPT !.m_nmi_triggered = FALSE,
                                    !.m_frame_complete = FALSE,
                                    !.m_sprite_count = 0,
                                    !.m_sprite_zero_index = 0 - 1,
                                    !.m_sprite_zero_hit_possible = FALSE,
                                    !.m_sprite_zero_rendering = FALSE]])

\* APU::reset(), with struct Pulse, Triangle, Noise and DMC at their
\* default member values.  m_pulse[0] and m_pulse[1] are m_pulse[1] and
\* m_pulse[2] here; the floats m_filter_state and m_sample_accumulator are
\* held as their bit patterns (0.0f is 0).
APU_reset ==
    LET Pulse ==
            [ enabled |-> FALSE, duty |-> 0, length_halt |-> FALSE,
              constant_volume |-> FALSE, volume |-> 0, sweep_enabled |-> FALSE,
              sweep_period |-> 0, sweep_negate |-> FALSE, sweep_shift |-> 0,
              timer_period |-> 0, timer |-> 0, sequence_pos |-> 0,
              length_counter |-> 0, envelope_counter |-> 0,
              envelope_divider |-> 0, envelope_start |-> FALSE,
              sweep_divider |-> 0, sweep_reload |-> FALSE ]
        Triangle ==
            [ enabled |-> FALSE, control_flag |-> FALSE,
              linear_counter_reload |-> 0, timer_period |-> 0, timer |-> 0,
              sequence_pos |-> 0, length_counter |-> 0, linear_counter |-> 0,
              linear_counter_reload_flag |-> FALSE ]
        Noise ==
            [ enabled |-> FALSE, length_halt |-> FALSE,
              constant_volume |-> FALSE, volume |-> 0, mode |-> FALSE,
              timer_period |-> 0, timer |-> 0, shift_register |-> 1,
              length_counter |-> 0, envelope_counter |-> 0,
              envelope_divider |-> 0, envelope_start |-> FALSE ]
        DMC ==
            [ enabled |-> FALSE, irq_enabled |-> FALSE, loop |-> FALSE,
              rate |-> 0, output_level |-> 0, sample_address |-> 0,
              sample_length |-> 0 ]
    IN  [ m_frame_counter_mode |-> 0, m_frame_counter_step |-> 0,
          m_frame_counter_cycles |-> 0, m_irq_inhibit |-> FALSE,
          m_frame_irq |-> FALSE,
          m_pulse |-> <<Pulse, Pulse>>,
          m_triangle |-> Triangle, m_noise |-> Noise, m_dmc |-> DMC,
          m_audio_write_pos |-> 0, m_cycles |-> 0, m_sample_counter |-> 0,
          m_filter_state |-> 0, m_sample_accumulator |-> 0,
          m_sample_count |-> 0 ]

\* the statements of APU::save_state: frame counter, the two passes of the
\* pulse loop, triangle, noise, DMC, timing
APU_save_state ==
    LET pulse(i) ==
        [ k \in 1..18 |-> At(In("m_pulse",
            << Flag("enabled"), Field("duty", 1), Flag("length_halt"),
               Flag("constant_volume"), Field("volume", 1),
               Flag("sweep_enabled"), Field("sweep_period", 1),
               Flag("sweep_negate"), Field("sweep_shift", 1),
               Field("timer_period", 2), Field("timer", 2),
               Field("sequence_pos", 1), Field("length_counter", 1),
               Field("envelope_counter", 1), Field("envelope_divider", 1),
               Flag("envelope_start"), Field("sweep_divider", 1),
               Flag("sweep_reload") >>[k]), i) ]
        triangle ==
        [ k \in 1..9 |-> In("m_triangle",
            << Flag("enabled"), Flag("control_flag"),
               Field("linear_counter_reload", 1), Field("timer_period", 2),
               Field("timer", 2), Field("sequence_pos", 1),
               Field("length_counter", 1), Field("linear_counter", 1),
               Flag("linear_counter_reload_flag") >>[k]) ]
        noise ==
        [ k \in 1..12 |-> In("m_noise",
            << Flag("enabled"), Flag("length_halt"), Flag("constant_volume"),
               Field("volume", 1), Flag("mode"), Field("timer_period", 2),
               Field("timer", 2), Field("shift_register", 2),
               Field("length_counter", 1), Field("envelope_counter", 1),
               Field("envelope_divider", 1), Flag("envelope_start") >>[k]) ]
        dmc ==
        [ k \in 1..7 |-> In("m_dmc",
            << Flag("enabled"), Flag("irq_enabled"), Flag("loop"),
               Field("rate", 2), Field("output_level", 1),
               Field("sample_address", 2), Field("sample_length", 2) >>[k]) ]
    IN  << Field("m_frame_counter_mode", 4), Field("m_frame_counter_step", 4),
           Field("m_frame_counter_cycles", 4),
           Flag("m_irq_inhibit"), Flag("m_frame_irq") >>
          \o pulse(1) \o pulse(2) \o triangle \o noise \o dmc
          \o << Field("m_cycles", 4), Field("m_sample_counter", 4),
                Field("m_filter_state", 4) >>

\* APU::load_state: the reads, every bool through the local "flag", then
\* the fields it clears
APU_load_state(a, s) ==
    Let(ReadFields(s, a,
        LET pulse(i) ==
            [ k \in 1..18 |-> At(In("m_pulse",
                << Flag("enabled"), Field("duty", 1), Flag("length_halt"),
                   Flag("constant_volume"), Field("volume", 1),
                   Flag("sweep_enabled"), Field("sweep_period", 1),
                   Flag("sweep_negate"), Field("sweep_shift", 1),
                   Field("timer_period", 2), Field("timer", 2),
                   Field("sequence_pos", 1), Field("length_counter", 1),
                   Field("envelope_counter", 1), Field("envelope_divider", 1),
                   Flag("envelope_start"), Field("sweep_divider", 1),
                   Flag("sweep_reload") >>[k]), i) ]
            triangle ==
            [ k \in 1..9 |-> In("m_triangle",
                << Flag("enabled"), Flag("control_flag"),
                   Field("linear_counter_reload", 1), Field("timer_period", 2),
                   Field("timer", 2), Field("sequence_pos", 1),
                   Field("length_counter", 1), Field("linear_counter", 1),
                   Flag("linear_counter_reload_flag") >>[k]) ]
            noise ==
            [ k \in 1..12 |-> In("m_noise",
                << Flag("enabled"), Flag("length_halt"), Flag("constant_volume"),
                   Field("volume", 1), Flag("mode"), Field("timer_period", 2),
                   Field("timer", 2), Field("shift_register", 2),
                   Field("length_counter", 1), Field("envelope_counter", 1),
                   Field("envelope_divider", 1), Flag("envelope_start") >>[k]) ]
            dmc ==
            [ k \in 1..7 |-> In("m_dmc",
                << Flag("enabled"), Flag("irq_enabled"), Flag("loop"),
                   Field("rate", 2), Field("output_level", 1),
                   Field("sample_address", 2), Field("sample_length", 2) >>[k]) ]
        IN  << Field("m_frame_counter_mode", 4), Field("m_frame_counter_step", 4),
               Field("m_frame_counter_cycles", 4),
               Flag("m_irq_inhibit"), Flag("m_frame_irq") >>
              \o pulse(1) \o pulse(2) \o triangle \o noise \o dmc
              \o << Field("m_cycles", 4), Field("m_sample_counter", 4),
                    Field("m_filter_state", 4) >>, "shared"), LAMBDA t :
        [t EXCEPT !.rec = [@ EXCEPT !.m_audio_write_pos = 0,
                                    !.m_sample_accumulator = 0,
                                    !.m_sample_count = 0]])

\* the statements of Bus::save_state.  m_controller_state[0..1] and
\* m_controller_shift[0..1] are elements 1..2 here.
Bus_save_state ==
    << Array("m_ram", 2048),
       At(Field("m_controller_state", 4), 1), At(Field("m_controller_state", 4), 2),
       At(Field("m_controller_shift", 1), 1), At(Field("m_controller_shift", 1), 2),
       Flag("m_controller_strobe") >>

\* the swap of two statements of Bus::load_state: m_controller_shift[1] is
\* read before m_controller_shift[0]
Bus_load_state_shift_swapped(b, s) ==
    ReadFields(s, b,
    << Array("m_ram", 2048),
       At(Field("m_controller_state", 4), 1), At(Field("m_controller_state", 4), 2),
       At(Field("m_controller_shift", 1), 2), At(Field("m_controller_shift", 1), 1),
       Flag("m_controller_strobe") >>, "own")

\* Bus::load_state
Bus_load_state(b, s) ==
    ReadFields(s, b,
    << Array("m_ram", 2048),
       At(Field("m_controller_state", 4), 1), At(Field("m_controller_state", 4), 2),
       At(Field("m_controller_shift", 1), 1), At(Field("m_controller_shift", 1), 2),
       Flag("m_controller_strobe") >>, "own")

\* the statements of Mapper004::save_state
Mapper004_save_state ==
    << Field("m_bank_select", 1), Flag("m_prg_mode"), Flag("m_chr_mode") >>
      \o [i \in 1..8 |-> At(Field("m_registers", 1), i - 1)]
      \o << Field("m_irq_counter", 1), Field("m_irq_latch", 1),
            Flag("m_irq_enabled"), Flag("m_irq_pending"), Flag("m_irq_reload"),
            Field("m_mirror_mode", 1) >>

\* Mapper004::load_state: "if (remaining < 16) return;", then seventeen
\* bytes are taken and the banks recomputed
Mapper004_load_state(m, s) ==
    IF s.remaining < 16 THEN [s EXCEPT !.rec = m]
    ELSE Let(ReadFields(s, m,
            << Field("m_bank_select", 1), Flag("m_prg_mode"), Flag("m_chr_mode") >>
              \o [i \in 1..8 |-> At(Field("m_registers", 1), i - 1)]
              \o << Field("m_irq_counter", 1), Field("m_irq_latch", 1),
                    Flag("m_irq_enabled"), Flag("m_irq_pending"), Flag("m_irq_reload"),
                    Field("m_mirror_mode", 1) >>, "raw"), LAMBDA t :
             [t EXCEPT !.rec = Mapper004_update_banks(@)])

\* Mapper001: the registers its save_state writes as the constructor
\* leaves them (new); the statements of Mapper001::save_state; of
\* Mapper001::load_state the size tested against `remaining` (guard) and
\* the assignments.  The bank offsets load_state recomputes are not part
\* of the record.
Mapper001(mirror) ==
    [ new |->
          [ num |-> 1, m_shift_register |-> 16, m_shift_count |-> 0,
            m_control |-> 12, m_chr_bank_0 |-> 0, m_chr_bank_1 |-> 0,
            m_prg_bank |-> 0, m_mirror_mode |-> mirror ],
      save_state |->
          << Field("m_shift_register", 1), Field("m_shift_count", 1),
            Field("m_control", 1), Field("m_chr_bank_0", 1),
            Field("m_chr_bank_1", 1), Field("m_prg_bank", 1),
            Field("m_mirror_mode", 1) >>,
      guard |-> 7,
      load_state |->
          << Field("m_shift_register", 1), Field("m_shift_count", 1),
            Field("m_control", 1), Field("m_chr_bank_0", 1),
            Field("m_chr_bank_1", 1), Field("m_prg_bank", 1),
            Field("m_mirror_mode", 1) >> ]

\* Mapper002: the registers its save_state writes as the constructor
\* leaves them (new); the statements of Mapper002::save_state; of
\* Mapper002::load_state the size tested against `remaining` (guard) and
\* the assignments.  The bank offsets load_state recomputes are not part
\* of the record.
Mapper002(mirror) ==
    [ new |->
          [ num |-> 2, m_prg_bank |-> 0, m_mirror_mode |-> mirror ],
      save_state |->
          << Field("m_prg_bank", 1) >>,
      guard |-> 1,
      load_state |->
          << Field("m_prg_bank", 1) >> ]

\* Mapper003: the registers its save_state writes as the constructor
\* leaves them (new); the statements of Mapper003::save_state; of
\* Mapper003::load_state the size tested against `remaining` (guard) and
\* the assignments.  The bank offsets load_state recomputes are not part
\* of the record.
Mapper003(mirror) ==
    [ new |->
          [ num |-> 3, m_chr_bank |-> 0, m_mirror_mode |-> mirror ],
      save_state |->
          << Field("m_chr_bank", 1) >>,
      guard |-> 1,
      load_state |->
          << Field("m_chr_bank", 1) >> ]

\* Mapper007: the registers its save_state writes as the constructor
\* leaves them (new); the statements of Mapper007::save_state; of
\* Mapper007::load_state the size tested against `remaining` (guard) and
\* the assignments.  The bank offsets load_state recomputes are not part
\* of the record.
Mapper007(mirror) ==
    [ new |->
          [ num |-> 7, m_prg_bank |-> 0, m_mirror_mode |-> mirror ],
      save_state |->
          << Field("m_prg_bank", 1), Field("m_mirror_mode", 1) >>,
      guard |-> 2,
      load_state |->
          << Field("m_prg_bank", 1), Field("m_mirror_mode", 1) >> ]

\* Mapper009: the registers its save_state writes as the constructor
\* leaves them (new); the statements of Mapper009::save_state; of
\* Mapper009::load_state the size tested against `remaining` (guard) and
\* the assignments.  The bank offsets load_state recomputes are not part
\* of the record.
Mapper009(mirror) ==
    [ new |->
          [ num |-> 9, m_prg_bank |-> 0, m_chr_bank_0_fd |-> 0,
            m_chr_bank_0_fe |-> 0, m_chr_bank_1_fd |-> 0, m_chr_bank_1_fe |-> 0,
            m_latch_0 |-> FALSE, m_latch_1 |-> FALSE, m_mirror_mode |-> mirror ],
      save_state |->
          << Field("m_prg_bank", 1), Field("m_chr_bank_0_fd", 1),
            Field("m_chr_bank_0_fe", 1), Field("m_chr_bank_1_fd", 1),
            Field("m_chr_bank_1_fe", 1), Flag("m_latch_0"), Flag("m_latch_1"),
            Field("m_mirror_mode", 1) >>,
      guard |-> 8,
      load_state |->
          << Field("m_prg_bank", 1), Field("m_chr_bank_0_fd", 1),
            Field("m_chr_bank_0_fe", 1), Field("m_chr_bank_1_fd", 1),
            Field("m_chr_bank_1_fe", 1), Flag("m_latch_0"), Flag("m_latch_1"),
            Field("m_mirror_mode", 1) >> ]

\* Mapper010: the registers its save_state writes as the constructor
\* leaves them (new); the statements of Mapper010::save_state; of
\* Mapper010::load_state the size tested against `remaining` (guard) and
\* the assignments.  The bank offsets load_state recomputes are not part
\* of the record.
Mapper010(mirror) ==
    [ new |->
          [ num |-> 10, m_prg_bank |-> 0, m_chr_bank_0_fd |-> 0,
            m_chr_bank_0_fe |-> 0, m_chr_bank_1_fd |-> 0, m_chr_bank_1_fe |-> 0,
            m_latch_0 |-> FALSE, m_latch_1 |-> FALSE, m_mirror_mode |-> mirror ],
      save_state |->
          << Field("m_prg_bank", 1), Field("m_chr_bank_0_fd", 1),
            Field("m_chr_bank_0_fe", 1), Field("m_chr_bank_1_fd", 1),
            Field("m_chr_bank_1_fe", 1), Flag("m_latch_0"), Flag("m_latch_1"),
            Field("m_mirror_mode", 1) >>,
      guard |-> 8,
      load_state |->
          << Field("m_prg_bank", 1), Field("m_chr_bank_0_fd", 1),
            Field("m_chr_bank_0_fe", 1), Field("m_chr_bank_1_fd", 1),
            Field("m_chr_bank_1_fe", 1), Flag("m_latch_0"), Flag("m_latch_1"),
            Field("m_mirror_mode", 1) >> ]

\* Mapper011, by its header: two bank registers (new), the statements of
\* its save_state, and its load_state: the size tested against
\* `remaining` (guard) and the assignments
Mapper011(mirror) ==
    [ new |->
          [ num |-> 11, m_prg_bank |-> 0, m_chr_bank |-> 0,
            m_mirror_mode |-> mirror ],
      save_state |->
          << Field("m_prg_bank", 1), Field("m_chr_bank", 1) >>,
      guard |-> 2,
      load_state |->
          << Field("m_prg_bank", 1), Field("m_chr_bank", 1) >> ]

\* Mapper034: the registers its save_state writes as the constructor
\* leaves them (new); the statements of Mapper034::save_state; of
\* Mapper034::load_state the size tested against `remaining` (guard) and
\* the assignments.  The bank offsets load_state recomputes are not part
\* of the record.
Mapper034(mirror) ==
    [ new |->
          [ num |-> 34, m_is_nina001 |-> FALSE, m_prg_bank |-> 0,
            m_chr_bank_0 |-> 0, m_chr_bank_1 |-> 0, m_mirror_mode |-> mirror ],
      save_state |->
          << Field("m_prg_bank", 1), Field("m_chr_bank_0", 1),
            Field("m_chr_bank_1", 1) >>,
      guard |-> 3,
      load_state |->
          << Field("m_prg_bank", 1), Field("m_chr_bank_0", 1),
            Field("m_chr_bank_1", 1) >> ]

\* Mapper066: the registers its save_state writes as the constructor
\* leaves them (new); the statements of Mapper066::save_state; of
\* Mapper066::load_state the size tested against `remaining` (guard) and
\* the assignments.  The bank offsets load_state recomputes are not part
\* of the record.
Mapper066(mirror) ==
    [ new |->
          [ num |-> 66, m_prg_bank |-> 0, m_chr_bank |-> 0,
            m_mirror_mode |-> mirror ],
      save_state |->
          << Field("m_prg_bank", 1), Field("m_chr_bank", 1) >>,
      guard |-> 2,
      load_state |->
          << Field("m_prg_bank", 1), Field("m_chr_bank", 1) >> ]

\* Mapper071: the registers its save_state writes as the constructor
\* leaves them (new); the statements of Mapper071::save_state; of
\* Mapper071::load_state the size tested against `remaining` (guard) and
\* the assignments.  The bank offsets load_state recomputes are not part
\* of the record.
Mapper071(mirror) ==
    [ new |->
          [ num |-> 71, m_prg_bank |-> 0, m_has_mirroring_control |-> FALSE,
            m_mirror_mode |-> mirror ],
      save_state |->
          << Field("m_prg_bank", 1), Field("m_mirror_mode", 1) >>,
      guard |-> 2,
      load_state |->
          << Field("m_prg_bank", 1), Field("m_mirror_mode", 1) >> ]

\* Mapper079: the registers its save_state writes as the constructor
\* leaves them (new); the statements of Mapper079::save_state; of
\* Mapper079::load_state the size tested against `remaining` (guard) and
\* the assignments.  The bank offsets load_state recomputes are not part
\* of the record.
Mapper079(mirror) ==
    [ new |->
          [ num |-> 79, m_prg_bank |-> 0, m_chr_bank |-> 0,
            m_mirror_mode |-> mirror ],
      save_state |->
          << Field("m_prg_bank", 1), Field("m_chr_bank", 1) >>,
      guard |-> 2,
      load_state |->
          << Field("m_prg_bank", 1), Field("m_chr_bank", 1) >> ]

\* Mapper206: the registers its save_state writes as the constructor
\* leaves them (new); the statements of Mapper206::save_state; of
\* Mapper206::load_state the size tested against `remaining` (guard) and
\* the assignments.  The bank offsets load_state recomputes are not part
\* of the record.
Mapper206(mirror) ==
    [ new |->
          [ num |-> 206, m_bank_select |-> 0, m_registers |-> [i \in 0..7 |-> 0],
            m_mirror_mode |-> mirror ],
      save_state |->
          <<Field("m_bank_select", 1)>>
            \o [i \in 1..8 |-> At(Field("m_registers", 1), i - 1)],
      guard |-> 9,
      load_state |->
          <<Field("m_bank_select", 1)>>
            \o [i \in 1..8 |-> At(Field("m_registers", 1), i - 1)] ]

\* Mapper000 (NROM): no registers; the base class keeps the mirror mode
Mapper000_new(mirror) == [num |-> 0, m_mirror_mode |-> mirror]

\* create_mapper(mapper_number, ..., initial_mirror, ...): the mapper object,
\* in the shape of the records above.  Mapper000 keeps the empty
\* save_state and load_state of the base class (mapper.hpp).
create_mapper(mapper_number, mirror) ==
    IF mapper_number = 0
    THEN [ new |-> Mapper000_new(mirror), save_state |-> <<>>,
           guard |-> 0, load_state |-> <<>> ]
    ELSE IF mapper_number = 1 THEN Mapper001(mirror)
    ELSE IF mapper_number = 2 THEN Mapper002(mirror)
    ELSE IF mapper_number = 3 THEN Mapper003(mirror)
    ELSE IF mapper_number = 4
    THEN [ new |-> Mapper004_reset(PrgBanks * 8192, ChrBanks * 1024, mirror),
           save_state |-> Mapper004_save_state,
           guard |-> 16, load_state |-> <<>> ]
    ELSE IF mapper_number = 7 THEN Mapper007(mirror)
    ELSE IF mapper_number = 9 THEN Mapper009(mirror)
    ELSE IF mapper_number = 10 THEN Mapper010(mirror)
    ELSE IF mapper_number = 11 THEN Mapper011(mirror)
    ELSE IF mapper_number = 34 THEN Mapper034(mirror)
    ELSE IF mapper_number = 66 THEN Mapper066(mirror)
    ELSE IF mapper_number = 71 THEN Mapper071(mirror)
    ELSE IF mapper_number = 79 THEN Mapper079(mirror)
    ELSE Mapper206(mirror)

\* Cartridge::save_state: the save_state of the mapper create_mapper made
Cartridge_save_state(m) ==
    WriteFields(m, create_mapper(m.num, m.m_mirror_mode).save_state)

\* Cartridge::load_state: the load_state of the mapper
Cartridge_load_state(m, s) ==
    IF m.num = 4 THEN Mapper004_load_state(m, s)
    ELSE Let(create_mapper(m.num, m.m_mirror_mode), LAMBDA d :
             IF s.remaining < d.guard THEN [s EXCEPT !.rec = m]
             ELSE ReadFields(s, m, d.load_state, "raw"))

\* NESPlugin::save_state: ret is the value returned, data the blob
NESPlugin_save_state(n, M) ==
    IF ~n.m_rom_loaded THEN [ret |-> FALSE, data |-> <<>>]
    ELSE [ret |-> TRUE,
          data |-> FieldBytes(n, Field("m_frame_count", 8))
                     \o FieldBytes(n, Field("m_total_cycles", 8))
                     \o WriteFields(M.cpu, CPU_save_state)
                     \o WriteFields(M.ppu, PPU_save_state)
                     \o WriteFields(M.apu, APU_save_state)
                     \o WriteFields(M.bus, Bus_save_state)
                     \o Cartridge_save_state(M.mapper)]

\* NESPlugin::load_state on the core (n, M): ret is the value returned,
\* nes and m the core afterwards
NESPlugin_load_state(n, M, data, junk) ==
    IF ~n.m_rom_loaded \/ data = <<>> THEN [ret |-> FALSE, nes |-> n, m |-> M]
    ELSE IF Len(data) < 8 + 8 THEN [ret |-> FALSE, nes |-> n, m |-> M]
    ELSE Let([Reader(data, junk) EXCEPT !.pos = 16, !.remaining = @ - 16], LAMBDA s0 :
         Let(CPU_load_state(M.cpu, s0), LAMBDA s1 :
         Let(PPU_load_state(M.ppu, s1), LAMBDA s2 :
         Let(APU_load_state(M.apu, s2), LAMBDA s3 :
         Let(Bus_load_state(M.bus, s3), LAMBDA s4 :
         Let(Cartridge_load_state(M.mapper, s4), LAMBDA s5 :
             [ret |-> TRUE,
              nes |-> [n EXCEPT !.m_frame_count = Unsigned(SubSeq(data, 1, 8)),
                                !.m_total_cycles = Unsigned(SubSeq(data, 9, 16))],
              m |-> [cpu |-> s1.rec, ppu |-> s2.rec, apu |-> s3.rec,
                     bus |-> s4.rec, mapper |-> s5.rec]]))))))

---------------------------------------------------------------------------
(* NESPlugin::run_frame, one step of its loops at a time *)

Machine == [cpu |-> cpu, ppu |-> ppu, apu |-> apu, bus |-> bus, mapper |-> mapper]

Commit(M) ==
    /\ cpu' = M.cpu
    /\ ppu' = M.ppu
    /\ apu' = M.apu
    /\ bus' = M.bus
    /\ mapper' = M.mapper

\* PPU::step on the connected machine: the address its rendering part
\* fetches goes to Bus::notify_ppu_address_bus before the timing advance,
\* and the frame wrap calls Bus::notify_frame_start.
Bus_ppu_step(M) ==
    LET fc == FrameCycle(M.ppu)
        Notify(fetch) ==
            IF fetch = <<>> THEN [mapper |-> M.mapper, clocked |-> FALSE]
            ELSE Cartridge_notify_ppu_address_bus(M.mapper, fetch[1], fc)
    IN  Let(PPU_step(M.ppu, Cartridge_get_mirror_mode(M.mapper)), LAMBDA s :
        Let(Notify(s.fetch), LAMBDA n :
            [m |-> [M EXCEPT
                      !.ppu = s.ppu,
                      !.mapper = IF s.frame_start
                                 THEN Cartridge_notify_frame_start(n.mapper)
                                 ELSE n.mapper],
             frame_start |-> s.frame_start,
             ev |-> IF s.fetch = <<>> THEN <<>>
                    ELSE <<[addr |-> s.fetch[1], fc |-> fc,
                            clocked |-> n.clocked]>>]))

\* One pass of the inner for-loop of run_frame: PPU::step, check_nmi ->
\* trigger_nmi, check_frame_complete.
RunDot(M) ==
    Let(Bus_ppu_step(M), LAMBDA s :
    Let(PPU_check_nmi(s.m.ppu), LAMBDA k :
    Let(PPU_check_frame_complete(k.ppu), LAMBDA f :
        [m |-> [s.m EXCEPT
                  !.ppu = f.ppu,
                  !.cpu = IF k.ret # 0 THEN CPU_trigger_nmi(@) ELSE @],
         frame_complete |-> f.ret,
         frame_start |-> s.frame_start,
         ev |-> s.ev])))

\* The mapper IRQ poll after the dots: Bus::mapper_irq_pending() with its
\* default frame_cycle argument 0, then trigger_irq and mapper_irq_clear.
RunPoll(M) ==
    Let(Cartridge_irq_pending(M.mapper, 0), LAMBDA q :
        IF q.ret
        THEN [m |-> [M EXCEPT !.cpu = CPU_trigger_irq(@),
                              !.mapper = Cartridge_irq_clear(q.mapper)],
              raised |-> TRUE]
        ELSE [m |-> [M EXCEPT !.mapper = q.mapper], raised |-> FALSE])

---------------------------------------------------------------------------
(* History variables *)

NoEvent == [clocked |-> FALSE, rise |-> FALSE, low |-> 0, fc |-> 0]

GhostInit ==
    [ a12_line |-> FALSE,     \* bit 12 of the last address put on the PPU bus
      a12_low |-> 0,          \* dots the line has been low, capped at 16
      ev |-> NoEvent,         \* what the last action's A12 notification did
      irq_owed |-> FALSE,     \* a clock left counter = 0 with IRQ enabled
      op |-> "none",          \* the last action's MMC3 IRQ register write
      vis_before |-> FALSE,   \* irq_pending() just before that write
      wrapped |-> FALSE,      \* the line has been low across a frame start
      start_cycles |-> 0,     \* m_total_cycles when run_frame was entered
      start_frames |-> 0,     \* m_frame_count when run_frame was entered
      start_fc |-> 0,         \* PPU frame cycle when run_frame was entered
      edge |-> 0 - 1,         \* instructions executed since the one that
                              \* enabled NMI output with m_nmi_occurred set
                              \* (capped at 3), -1 if none since the last
                              \* NMI entry
      entry |-> FALSE,        \* the last CPU::step was an NMI entry
      prev_input |-> 0,       \* the buttons the last finished run_frame
                              \* call was given
      pad |-> "none",         \* the last CPU::step's access to $4016:
                              \* "store", "load" or "none"
      reads |-> 0 - 1,        \* $4016 reads since the last $4016 write
                              \* with bit 0 set (capped at 2), -1 if none
                              \* in this run_frame call
      dma |-> [cycles |-> 0 - 1, fc |-> 0] ]
                              \* m_total_cycles and the PPU frame cycle
                              \* before the last CPU::step if it wrote
                              \* $4014, cycles = -1 otherwise

\* the effect of the A12 notifications evs of one action
GhostEvents(g, evs) ==
    IF evs = <<>> THEN [g EXCEPT !.ev = NoEvent]
    ELSE LET e == evs[1]
             line == Bit(e.addr, 12) = 1
             rise == ~g.a12_line /\ line
         IN  [g EXCEPT !.a12_line = line,
                       !.a12_low = IF line \/ g.a12_line THEN 0 ELSE @,
                       !.wrapped = IF line \/ g.a12_line THEN FALSE ELSE @,
                       !.ev = IF rise \/ e.clocked
                              THEN [clocked |-> e.clocked, rise |-> rise,
                                    low |-> g.a12_low, fc |-> e.fc]
                              ELSE NoEvent]

\* n more PPU dots have elapsed
GhostDots(g, n, frame_start) ==
    [g EXCEPT !.a12_low = IF g.a12_line THEN 0
                          ELSE IF @ + n < FILTER_THRESHOLD THEN @ + n
                          ELSE FILTER_THRESHOLD,
              !.wrapped = IF g.a12_line THEN FALSE ELSE (@ \/ frame_start)]

\* would irq_pending() return true now
IrqVisible(m) == Cartridge_irq_pending(m, 0).ret

\* a clock in evs left the counter at 0 with the IRQ enabled
ClockLeftZero(evs, m) ==
    /\ evs # <<>>
    /\ evs[1].clocked
    /\ m.m_irq_counter = 0
    /\ m.m_irq_enabled

---------------------------------------------------------------------------
(* Exploration windows.  Instructions that touch registers are explored   *)
(* dot by dot around the frame wrap, around the VBlank dot (241,1) and    *)
(* around the pre-render dots (261,0..1); between the windows the program *)
(* runs register-free instructions (QuietStretch).                        *)

\* frame cycle of (241,1), where VBlank starts and run_frame's loop ends
VblFc == (VBlankLine * DotsPerLine) + 1

\* frame cycle of (261,0), where the VBlank flag is cleared
PreFc == LastScanline * DotsPerLine

\* dots explored before a flagged dot
Margin == 6
\* dots explored after (241,1): the NMI delay and one instruction
VblAfter == 24

InWindow(fc) ==
    \/ fc < WinAfter
    \/ fc >= FrameDots - WinBefore
    \/ (fc >= VblFc - Margin /\ fc <= VblFc + VblAfter)
    \/ (fc >= PreFc - Margin /\ fc <= PreFc + Margin)

\* The unconditional background fetches of the visible lines change
\* nothing in the PPU and put only A12-low addresses on the bus: rendering
\* is off, the background pattern table is $0000, and the nametable RAM
\* and the fetch latches hold zeros.
PPU_fetch_idle(p) ==
    /\ ~RenderingOn(p.m_mask)
    /\ Bit(p.m_ctrl, 4) = 0
    /\ p.m_nametable = ZeroArray
    /\ p.m_bg_next_tile_id = 0 /\ p.m_bg_next_tile_attrib = 0
    /\ p.m_bg_next_tile_lo = 0 /\ p.m_bg_next_tile_hi = 0
    /\ p.m_bg_shifter_pattern_lo % 256 = 0
    /\ p.m_bg_shifter_pattern_hi % 256 = 0
    /\ p.m_bg_shifter_attrib_lo % 256 = 0
    /\ p.m_bg_shifter_attrib_hi % 256 = 0

\* A register-free stretch can start: nothing is in flight that the CPU,
\* the PPU or the poll would act on.
QuietOK(M) ==
    /\ ~M.cpu.m_nmi_pending
    /\ ~(M.cpu.m_irq_pending /\ ~CPU_flag_I(M.cpu))
    /\ M.ppu.m_nmi_delay = 0
    /\ ~M.ppu.m_nmi_triggered
    /\ ~M.ppu.m_nmi_triggered_delayed
    /\ ~M.ppu.m_frame_complete
    /\ ~IrqVisible(M.mapper)
    /\ PPU_fetch_idle(M.ppu)
    /\ (FrameCycle(M.ppu) < 240 * DotsPerLine /\ M.mapper.num = 4)
          => ~M.mapper.m_last_a12

\* PPU::step applied n times from a dot outside the windows to a dot
\* before the next flagged dot, with PPU_fetch_idle: only "m_cycle++" and
\* the scanline wrap change the PPU.
PPU_idle_run(p, n) ==
    LET fc == FrameCycle(p) + n
    IN  [p EXCEPT !.m_scanline = fc \div DotsPerLine,
                  !.m_cycle = fc % DotsPerLine]

---------------------------------------------------------------------------
(* The restored core.  twin holds a second core that load_state filled    *)
(* from a blob of this one; while twin.run it receives every step this    *)
(* core receives.  It is followed until the two cores are equal in every  *)
(* field (they stay equal from there on) or differ in what the CPU sees.  *)

TwinOff == [on |-> FALSE, short |-> FALSE, run |-> FALSE, diverged |-> FALSE]

\* the twin after a step that took this core to M2 and the twin's core to
\* T2; same: the step reported the same thing in both
TwinStep(M2, T2, same) ==
    Let(T2, LAMBDA t :
        IF t.cpu # M2.cpu \/ ~same
        THEN [twin EXCEPT !.run = FALSE, !.diverged = TRUE, !.m = <<>>]
        ELSE IF t = M2 THEN [twin EXCEPT !.run = FALSE, !.m = <<>>]
        ELSE [twin EXCEPT !.m = t])

---------------------------------------------------------------------------
(* Actions *)

\* instructions of the program, as CPU_step takes them
Nop(c) == [kind |-> "nop", cyc |-> c, addr |-> 0, val |-> 0]

Store(a, v) == [kind |-> "store", cyc |-> 4, addr |-> a, val |-> v]

\* input: the buttons of the InputState the call in progress was given
LoopIdle == [pc |-> "idle", dots_left |-> 0, frame_complete |-> FALSE, cpu_cycles |-> 0,
             input |-> 0]

\* A variant of the call in which set_controller_state(0, input.buttons)
\* runs before the loop.
RunFrameBegin_sets_controller(buttons) ==
    /\ loop.pc = "idle"
    /\ nes.m_rom_loaded
    /\ nes.m_frame_count < MaxFrames
    /\ loop' = [LoopIdle EXCEPT !.pc = "cpu", !.input = buttons]
    /\ bus' = Bus_set_controller_state(bus, 0, buttons)
    /\ ghost' = [ghost EXCEPT !.ev = NoEvent, !.op = "none",
                              !.start_cycles = nes.m_total_cycles,
                              !.start_frames = nes.m_frame_count,
                              !.start_fc = FrameCycle(ppu),
                              !.pad = "none", !.reads = 0 - 1]
    /\ UNCHANGED <<nes, cpu, ppu, apu, mapper, twin>>

\* the host calls run_frame(input) (at most MaxFrames times)
RunFrameBegin(buttons) ==
    /\ loop.pc = "idle"
    /\ nes.m_rom_loaded
    /\ nes.m_frame_count < MaxFrames
    /\ loop' = [LoopIdle EXCEPT !.pc = "cpu", !.input = buttons]
    /\ ghost' = [ghost EXCEPT !.ev = NoEvent, !.op = "none",
                              !.start_cycles = nes.m_total_cycles,
                              !.start_frames = nes.m_frame_count,
                              !.start_fc = FrameCycle(ppu),
                              !.pad = "none", !.reads = 0 - 1]
    /\ UNCHANGED <<nes, cpu, ppu, apu, bus, mapper, twin>>

\* the IRQ register an instruction writes: "even" $E000, "odd" $E001
IrqRegOp(ins) ==
    IF ins.kind = "store" /\ ins.addr >= 57344
    THEN (IF ins.addr % 2 = 0 THEN "even" ELSE "odd")
    ELSE "none"

\* int cpu_cycles = m_cpu->step(); m_total_cycles += cpu_cycles;
CpuStep(ins) ==
    /\ loop.pc = "cpu"
    /\ \/ InWindow(FrameCycle(ppu))
       \/ ~QuietOK(Machine) /\ ins = Nop(2)
       \/ twin.run /\ ~QuietOK(twin.m) /\ ins = Nop(2)
    /\ \E r \in {CPU_step(Machine, ins)} :
       LET taken == ~cpu.m_nmi_pending /\ ~(cpu.m_irq_pending /\ ~CPU_flag_I(cpu))
           op == IF taken /\ mapper.num = 4 THEN IrqRegOp(ins) ELSE "none"
           g1 == GhostEvents(ghost, r.ev)
           enables == /\ taken /\ ins.kind = "store" /\ ins.addr = 8192
                      /\ Bit(ins.val, 7) = 1
                      /\ ~ppu.m_nmi_output /\ ppu.m_nmi_occurred
       IN  /\ Commit(r.m)
           /\ nes' = [nes EXCEPT !.m_total_cycles = @ + r.cycles]
           /\ loop' = [loop EXCEPT !.pc = IF r.cycles > 0 THEN "ppu" ELSE "poll",
                                   !.dots_left = r.cycles * 3,
                                   !.cpu_cycles = r.cycles]
           /\ ghost' = [g1 EXCEPT
                          !.op = op,
                          !.vis_before = IF op = "none" THEN FALSE ELSE IrqVisible(mapper),
                          !.irq_owed = IF op = "even" THEN FALSE
                                       ELSE @ \/ ClockLeftZero(r.ev, r.m.mapper),
                          !.entry = cpu.m_nmi_pending,
                          !.pad = IF taken /\ ins.addr = 16406 THEN ins.kind
                                  ELSE "none",
                          !.reads = IF ~taken \/ ins.addr # 16406 THEN @
                                    ELSE IF ins.kind = "store"
                                    THEN (IF ins.val % 2 = 1 THEN 0 ELSE @)
                                    ELSE IF @ < 0 \/ @ = 2 THEN @
                                    ELSE @ + 1,
                          !.dma = IF taken /\ ins.kind = "store" /\ ins.addr = 16404
                                  THEN [cycles |-> nes.m_total_cycles,
                                        fc |-> FrameCycle(ppu)]
                                  ELSE [cycles |-> 0 - 1, fc |-> 0],
                          !.edge = IF cpu.m_nmi_pending THEN @
                                   ELSE IF enables THEN 0
                                   ELSE IF ghost.entry \/ @ < 0 THEN 0 - 1
                                   ELSE IF ~taken \/ @ = 3 THEN @
                                   ELSE @ + 1]
           /\ twin' = IF twin.run
                      THEN Let(CPU_step(twin.m, ins), LAMBDA r2 :
                               TwinStep(r.m, r2.m, r2.cycles = r.cycles))
                      ELSE twin

\* one pass of "for (i = 0; i < cpu_cycles * 3; i++)"
PpuDot ==
    /\ loop.pc = "ppu"
    /\ loop.dots_left > 0
    /\ \E d \in {RunDot(Machine)} :
       LET g1 == GhostEvents(ghost, d.ev)
           g2 == GhostDots(g1, 1, d.frame_start)
       IN  /\ Commit(d.m)
           /\ loop' = [loop EXCEPT !.dots_left = @ - 1,
                                   !.frame_complete = @ \/ d.frame_complete,
                                   !.pc = IF loop.dots_left = 1 THEN "poll" ELSE @]
           /\ ghost' = [g2 EXCEPT !.op = "none", !.vis_before = FALSE,
                                  !.irq_owed = @ \/ ClockLeftZero(d.ev, d.m.mapper)]
           /\ twin' = IF twin.run
                      THEN Let(RunDot(twin.m), LAMBDA d2 :
                               TwinStep(d.m, d2.m, d2.frame_complete = d.frame_complete))
                      ELSE twin
    /\ UNCHANGED nes

\* the mapper IRQ poll and the loop test.  m_apu->step(cpu_cycles) runs
\* here too; it changes only APU state, which nothing in run_frame reads,
\* and is not modelled.
Poll ==
    /\ loop.pc = "poll"
    /\ \E q \in {RunPoll(Machine)} :
           /\ Commit(q.m)
           /\ ghost' = [ghost EXCEPT !.ev = NoEvent, !.op = "none", !.vis_before = FALSE,
                                     !.irq_owed = IF q.raised THEN FALSE ELSE @]
           /\ twin' = IF twin.run
                      THEN Let(RunPoll(twin.m), LAMBDA q2 :
                               TwinStep(q.m, q2.m, q2.raised = q.raised))
                      ELSE twin
    /\ loop' = [loop EXCEPT !.pc = IF loop.frame_complete THEN "end" ELSE "cpu"]
    /\ UNCHANGED nes

\* after the loop: set_controller_state(0, input.buttons), the
\* framebuffer and audio copies (host outputs), m_frame_count++
RunFrameEnd ==
    /\ loop.pc = "end"
    /\ bus' = Bus_set_controller_state(bus, 0, loop.input)
    /\ nes' = [nes EXCEPT !.m_frame_count = @ + 1]
    /\ loop' = LoopIdle
    /\ ghost' = [ghost EXCEPT !.ev = NoEvent, !.op = "none", !.vis_before = FALSE,
                              !.prev_input = loop.input]
    /\ twin' = IF twin.run
               THEN [twin EXCEPT !.m.bus = Bus_set_controller_state(@, 0, loop.input)]
               ELSE twin
    /\ UNCHANGED <<cpu, ppu, apu, mapper>>

\* Whole loop iterations with register-free instructions from a dot
\* outside the windows to the start of the next window: n CPU cycles,
\* 3n PPU dots, no interrupt, no IRQ.  On the visible lines the PPU puts
\* nametable and pattern-table-$0000 addresses on the bus: A12 goes low
\* at the first of them and the mapper, whose m_last_a12 is low, ignores
\* them all.
QuietStretch ==
    /\ loop.pc = "cpu"
    /\ ~InWindow(FrameCycle(ppu))
    /\ QuietOK(Machine)
    /\ twin.run => QuietOK(twin.m)
    /\ LET fc == FrameCycle(ppu)
           \* the first frame cycle of the next window
           NextWindow == IF fc < VblFc - Margin THEN VblFc - Margin
                         ELSE IF fc < PreFc - Margin THEN PreFc - Margin
                         ELSE FrameDots - WinBefore
           n == ((NextWindow - fc) + 2) \div 3
       IN  /\ ppu' = PPU_idle_run(ppu, 3 * n)
           /\ nes' = [nes EXCEPT !.m_total_cycles = @ + n]
           /\ ghost' = [GhostDots(
                            IF fc < 240 * DotsPerLine
                            THEN [ghost EXCEPT !.a12_line = FALSE,
                                               !.wrapped = IF ghost.a12_line
                                                           THEN FALSE ELSE @]
                            ELSE ghost, 3 * n, FALSE) EXCEPT
                           !.ev = NoEvent, !.op = "none", !.vis_before = FALSE,
                           !.dma = [cycles |-> 0 - 1, fc |-> 0]]
           /\ twin' = IF twin.run
                      THEN [twin EXCEPT !.m.ppu = PPU_idle_run(@, 3 * n)]
                      ELSE twin
    /\ UNCHANGED <<cpu, apu, bus, mapper, loop>>

---------------------------------------------------------------------------
(* Specification of the MMC3 cartridge in the run loop *)

NesLoaded == [m_rom_loaded |-> TRUE, m_total_cycles |-> 0, m_frame_count |-> 0]

InitMMC3 ==
    /\ nes = NesLoaded
    /\ cpu = CPU_new
    /\ ppu = PPU_reset
    /\ apu = APU_reset
    /\ bus = Bus_new
    /\ mapper = Mapper004_reset(PrgBanks * 8192, ChrBanks * 1024, MirrorHorizontal)
    /\ loop = LoopIdle
    /\ ghost = GhostInit
    /\ twin = TwinOff

\* the frame wrap is at most WinBefore dots ahead or WinAfter dots behind
NearWrap(fc) == fc < WinAfter \/ fc >= FrameDots - WinBefore

\* the program: short and long register-free instructions everywhere;
\* around the frame wrap also PPUADDR writes that move A12 (a high byte
\* $00 or $10, then a low byte $00) and the MMC3 IRQ registers
InsMMC3 ==
    {Nop(2), Nop(7)}
    \cup IF NearWrap(FrameCycle(ppu))
         THEN {Store(8198, v) : v \in IF ppu.m_w THEN {0} ELSE {0, 16}}
              \cup {Store(49153, 0), Store(57344, 0), Store(57345, 0)}
         ELSE {}

NextMMC3 ==
    \/ RunFrameBegin(0)
    \/ \E ins \in InsMMC3 : CpuStep(ins)
    \/ PpuDot
    \/ Poll
    \/ RunFrameEnd
    \/ QuietStretch

SpecMMC3 == InitMMC3 /\ [][NextMMC3]_vars

---------------------------------------------------------------------------
(* Specification of Mapper004 alone: every sequence of the calls the PPU,  *)
(* the bus and the run loop make on it.  The PPU position is the time      *)
(* base: a notification carries the frame cycle of the dot it is made at,  *)
(* and notify_frame_start is called when the position wraps.               *)

\* dots before / after the frame wrap in which calls are explored
UnitBefore == 4
UnitAfter == 18
\* frames after which the dots between the windows are no longer passed
UnitFrames == 1

UnitNear(fc) == fc < UnitAfter \/ fc >= FrameDots - UnitBefore

\* PPU::step fetches address at the current dot
A12Bus(address) ==
    /\ UnitNear(FrameCycle(ppu))
    /\ LET fc == FrameCycle(ppu)
           n == Mapper004_notify_ppu_address_bus(mapper, address, fc)
           evs == <<[addr |-> address, fc |-> fc, clocked |-> n.clocked]>>
       IN  /\ mapper' = n.mapper
           /\ ghost' = [GhostEvents(ghost, evs) EXCEPT
                           !.op = "none", !.vis_before = FALSE,
                           !.irq_owed = @ \/ ClockLeftZero(evs, n.mapper)]
    /\ UNCHANGED <<nes, cpu, ppu, apu, bus, loop, twin>>

\* a PPUADDR / PPUDATA access leaves the VRAM address at new_addr
A12Change(new_addr) ==
    /\ UnitNear(FrameCycle(ppu))
    /\ LET fc == FrameCycle(ppu)
           n == Mapper004_notify_ppu_addr_change(mapper, new_addr, fc)
           evs == <<[addr |-> new_addr, fc |-> fc, clocked |-> n.clocked]>>
       IN  /\ mapper' = n.mapper
           /\ ghost' = [GhostEvents(ghost, evs) EXCEPT
                           !.op = "none", !.vis_before = FALSE,
                           !.irq_owed = @ \/ ClockLeftZero(evs, n.mapper)]
    /\ UNCHANGED <<nes, cpu, ppu, apu, bus, loop, twin>>

\* one PPU dot passes; at the frame wrap PPU::step calls
\* Bus::notify_frame_start
A12Dot ==
    /\ UnitNear(FrameCycle(ppu))
    /\ LET a == PPU_advance(ppu)
       IN  /\ ppu' = a.ppu
           /\ mapper' = IF a.frame_start THEN Mapper004_notify_frame_start(mapper)
                        ELSE mapper
           /\ ghost' = [GhostDots(ghost, 1, a.frame_start) EXCEPT
                           !.ev = NoEvent, !.op = "none", !.vis_before = FALSE]
    /\ UNCHANGED <<nes, cpu, apu, bus, loop, twin>>

\* the dots between the windows pass without a call
A12Idle ==
    /\ ~UnitNear(FrameCycle(ppu))
    /\ ppu.m_frame < UnitFrames
    /\ LET n == (FrameDots - UnitBefore) - FrameCycle(ppu)
       IN  /\ ppu' = PPU_idle_run(ppu, n)
           /\ ghost' = [GhostDots(ghost, n, FALSE) EXCEPT
                           !.ev = NoEvent, !.op = "none", !.vis_before = FALSE]
    /\ UNCHANGED <<nes, cpu, apu, bus, mapper, loop, twin>>

\* Mapper004::cpu_write to an IRQ register
RegWrite(address, value) ==
    /\ UnitNear(FrameCycle(ppu))
    /\ mapper' = Mapper004_cpu_write(mapper, address, value)
    /\ ghost' = [ghost EXCEPT
                    !.ev = NoEvent,
                    !.op = IrqRegOp(Store(address, value)),
                    !.vis_before = IrqVisible(mapper),
                    !.irq_owed = IF address >= 57344 /\ address % 2 = 0
                                 THEN FALSE ELSE @]
    /\ UNCHANGED <<nes, cpu, ppu, apu, bus, loop, twin>>

\* the run loop's poll: irq_pending(), then trigger_irq and irq_clear
IrqPoll ==
    /\ UnitNear(FrameCycle(ppu))
    /\ \E q \in {RunPoll(Machine)} :
           /\ Commit(q.m)
           /\ ghost' = [ghost EXCEPT !.ev = NoEvent, !.op = "none",
                                     !.vis_before = FALSE,
                                     !.irq_owed = IF q.raised THEN FALSE ELSE @]
    /\ UNCHANGED <<nes, loop, twin>>

\* The addresses of PPU fetches are of pattern table $1000 and of a
\* nametable; the VRAM address after a PPUADDR / PPUDATA access has A12
\* low or high; the MMC3 IRQ register writes are latch, reload, disable
\* and enable.
NextA12 ==
    \/ \E a \in {8176, 8447} : A12Bus(a)
    \/ \E a \in {0, 4096, 12288} : A12Change(a)
    \/ A12Dot
    \/ A12Idle
    \/ \E w \in {<<49152, 1>>, <<49153, 0>>, <<57344, 0>>, <<57345, 0>>} :
          RegWrite(w[1], w[2])
    \/ IrqPoll

SpecA12 == InitMMC3 /\ [][NextA12]_vars

---------------------------------------------------------------------------
(* Specification of run_frame for the frame and cycle counters: a         *)
(* cartridge with or without an IRQ mapper, instructions of every length, *)
(* the NMI enabled by the program, every controller input.                *)

\* host inputs (InputState::buttons): nothing pressed, A pressed
Buttons == {0, 1}

InitFrame ==
    /\ nes = NesLoaded
    /\ cpu = CPU_new
    /\ ppu = PPU_reset
    /\ apu = APU_reset
    /\ bus = Bus_new
    /\ mapper \in {Mapper004_reset(PrgBanks * 8192, ChrBanks * 1024, MirrorHorizontal),
                   Mapper000_new(MirrorVertical)}
    /\ loop = LoopIdle
    /\ ghost = GhostInit
    /\ twin = TwinOff

\* the program: register-free instructions of every length; around the
\* frame wrap and in the dots after (241,1) also the PPUCTRL write that
\* enables the NMI
InsFrame ==
    {Nop(c) : c \in CycleCounts}
    \cup IF /\ ~ppu.m_nmi_output
            /\ \/ NearWrap(FrameCycle(ppu))
               \/ FrameCycle(ppu) \in (VblFc + 1)..(VblFc + VblAfter)
         THEN {Store(8192, 128)}
         ELSE {}

\* the steps of the body of run_frame
LoopStep ==
    \/ \E ins \in InsFrame : CpuStep(ins)
    \/ PpuDot
    \/ Poll
    \/ RunFrameEnd
    \/ QuietStretch

NextFrame == (\E b \in Buttons : RunFrameBegin(b)) \/ LoopStep

SpecFrame == InitFrame /\ [][NextFrame]_vars

\* run_frame is sequential code: once called, it keeps executing
SpecFrameFair == SpecFrame /\ WF_vars(LoopStep)

\* CPU cycles counted by the run_frame call in progress or just finished
CallCycles == nes.m_total_cycles - ghost.start_cycles

\* C2: when run_frame has returned, the frame count is one more than at
\* the call and the cycle count 29780 or 29781 more.
C2_FrameAndCycles ==
    (loop.pc = "idle" /\ nes.m_frame_count > 0) =>
        /\ nes.m_frame_count = ghost.start_frames + 1
        /\ CallCycles \in {29780, 29781}

\* C3: every CPU::step in run_frame returns a positive cycle count, the
\* PPU dots run by one call stay below a frame plus one instruction, and
\* a call in progress reaches the end of run_frame.
C3_RunFrameTerminates ==
    /\ [](loop.pc = "ppu" => loop.cpu_cycles \in CycleCounts)
    /\ [](3 * CallCycles < FrameDots + (3 * InterruptCycles))
    /\ (loop.pc # "idle") ~> (loop.pc = "idle")

\* C3 case: the loop of the second run_frame call has ended after an NMI
\* entry, having run more CPU cycles than a frame has
C3_Witness ==
    /\ loop.pc = "end"
    /\ ghost.start_frames = 1
    /\ cpu.m_sp < 253
    /\ 3 * CallCycles > FrameDots

---------------------------------------------------------------------------
(* Specification of run_frame for the controller input: two calls with    *)
(* every input, a program of 2-cycle instructions that, around (241,1),   *)
(* where a call ends and the next begins, also strobes the controller     *)
(* port (STA $4016 with 1 and with 0) and reads it (LDA $4016).           *)

NextInput ==
    \/ \E b \in Buttons : RunFrameBegin(b)
    \/ \E ins \in {Nop(2)} \cup
                  IF FrameCycle(ppu) \in (VblFc - Margin)..(VblFc + VblAfter)
                  THEN {Store(16406, 1), Store(16406, 0),
                        [kind |-> "load", cyc |-> 4, addr |-> 16406, val |-> 0]}
                  ELSE {} : CpuStep(ins)
    \/ PpuDot
    \/ Poll
    \/ RunFrameEnd
    \/ QuietStretch

SpecInput == InitFrame /\ [][NextInput]_vars

\* C17: while a run_frame call is in progress the stored state of
\* controller 0 is the button byte of the input of the previous call (of
\* no button before the first call ends): a $4016 write with bit 0 set
\* made during the call latches that state, and the first $4016 read after
\* it returns the previous input's A button; the input of the call is
\* stored when the call returns.
C17_InputLatchedAfterLoop ==
    /\ loop.pc # "idle" =>
          /\ bus.m_controller_state[1] = Bus_nes_buttons(ghost.prev_input)
          /\ (ghost.pad = "store" /\ bus.m_controller_strobe)
                => bus.m_controller_shift[1] = Bus_nes_buttons(ghost.prev_input)
          /\ (ghost.pad = "load" /\ ghost.reads = 1)
                => cpu.m_a = 64 + Bit(ghost.prev_input, 0)
    /\ (loop.pc = "idle" /\ nes.m_frame_count > 0) =>
          bus.m_controller_state[1] = Bus_nes_buttons(ghost.prev_input)

\* C17 case: the second call was given "nothing pressed" after a first call
\* with A pressed; during it the program strobed the port and its first
\* read has returned A pressed
C17_Witness ==
    /\ loop.pc # "idle"
    /\ nes.m_frame_count = 1
    /\ loop.input = 0
    /\ ghost.prev_input = 1
    /\ ghost.pad = "load" /\ ghost.reads = 1
    /\ cpu.m_a = 65

---------------------------------------------------------------------------
(* Specification of run_frame with OAM DMA: a program of 2-cycle          *)
(* instructions that, around (241,1), executes one STA $4014.             *)

NextDma ==
    \/ RunFrameBegin(0)
    \/ \E ins \in {Nop(2)} \cup
                  IF /\ FrameCycle(ppu) \in (VblFc - Margin)..(VblFc + VblAfter)
                     /\ bus.m_pending_dma_cycles = 0
                  THEN {Store(16404, 2)}
                  ELSE {} : CpuStep(ins)
    \/ PpuDot
    \/ Poll
    \/ RunFrameEnd
    \/ QuietStretch

SpecDma == InitFrame /\ [][NextDma]_vars

\* C21: when the run_frame loop is about to execute the instruction after
\* one that wrote $4014, pending_dma_cycles is 0 again and the cycle count
\* and the PPU have advanced by the 4 cycles of the writing instruction
\* plus 513 CPU cycles (3 dots per cycle).
C21_DmaCyclesConsumed ==
    (loop.pc \in {"cpu", "end", "idle"} /\ ghost.dma.cycles >= 0) =>
        /\ bus.m_pending_dma_cycles = 0
        /\ nes.m_total_cycles = ghost.dma.cycles + 4 + 513
        /\ FrameCycle(ppu) = (ghost.dma.fc + (3 * (4 + 513))) % FrameDots

\* C16: when an instruction writes $2000 changing bit 7 from 0 to 1 while
\* m_nmi_occurred is set, the NMI entry that follows comes after exactly
\* one further instruction, not at the CPU::step right after the writing
\* instruction.
C16_DelayedNmi ==
    (ghost.entry /\ ghost.edge >= 0) => ghost.edge = 1

---------------------------------------------------------------------------
(* Specification of the PPU alone: the PPU's part of run_frame's dot loop  *)
(* (PPU::step, check_nmi, check_frame_complete) dot by dot from reset, and *)
(* the CPU's register accesses.  The frames before frame PlainFrames pass  *)
(* with rendering off; the program turns the background on two dots       *)
(* before frame PlainFrames and accesses the registers around the VBlank   *)
(* dot and around the last dots of that frame.                             *)

\* frames stepped before the frame in which registers are accessed
PlainFrames == 1
\* dots before the end of the frame in which registers are accessed
GridBefore == 5

\* what the last action was and where the PPU stood before it, and the
\* history of the current frame
GridFrom(p, op) ==
    [op |-> op, scanline |-> p.m_scanline, cycle |-> p.m_cycle,
     odd |-> p.m_odd_frame, rendering |-> RenderingOn(EffectiveMask(p)),
     frame |-> p.m_frame, vbl |-> Bit(p.m_status, 7) = 1,
     \* what the action returned or signalled
     data |-> 0, nmi |-> 0, frame_complete |-> FALSE, frame_start |-> FALSE,
     \* the frame of the last PPUMASK write
     mask_frame |-> ghost.mask_frame,
     \* the frame cycles of the PPUSTATUS reads and of the last PPUCTRL
     \* write of this frame
     reads |-> ghost.reads, ctrl_at |-> ghost.ctrl_at,
     \* NMI output when the step of this frame reached (241,1)
     vbl_output |-> ghost.vbl_output,
     \* the frame cycles at which check_nmi reported in this frame, and the
     \* number of frame-complete signals
     nmi_at |-> ghost.nmi_at, completes |-> ghost.completes,
     \* PPUSTATUS was read at (241,0) of the previous frame, and NMI
     \* output when the step of the previous frame reached (241,1)
     read0_prev |-> ghost.read0_prev, output_prev |-> ghost.output_prev,
     \* the address and the value of the access; the controller strobe and
     \* shift registers before the action; the history of the controller
     \* ports
     addr |-> 0 - 1, value |-> 0,
     strobe |-> bus.m_controller_strobe, shift |-> bus.m_controller_shift,
     pad |-> ghost.pad]

InitPPU ==
    /\ nes = NesLoaded
    /\ cpu = CPU_new
    /\ ppu = PPU_reset
    /\ apu = APU_reset
    /\ bus = Bus_new
    /\ mapper = Mapper004_reset(PrgBanks * 8192, ChrBanks * 1024, MirrorHorizontal)
    /\ loop = LoopIdle
    /\ ghost = [op |-> "none", scanline |-> 0, cycle |-> 0, odd |-> FALSE,
                rendering |-> FALSE, frame |-> 0, vbl |-> FALSE,
                data |-> 0, nmi |-> 0, frame_complete |-> FALSE,
                frame_start |-> FALSE, mask_frame |-> 0 - 1,
                reads |-> {}, ctrl_at |-> 0 - 1, vbl_output |-> FALSE,
                nmi_at |-> {}, completes |-> 0, read0_prev |-> FALSE,
                output_prev |-> FALSE, addr |-> 0 - 1, value |-> 0,
                strobe |-> FALSE, shift |-> <<0, 0>>,
                \* seq: "high" after a $4016 write with bit 0 set, "low"
                \* after the write with bit 0 clear that follows it,
                \* "dirty" after a read or a set_controller_state while
                \* "high"; n: the reads of each port while "low"; masks:
                \* the VirtualButton masks last set; latched: the masks
                \* at the last write with bit 0 set; sets: the number of
                \* set_controller_state calls
                pad |-> [seq |-> "none", n |-> <<0, 0>>, masks |-> <<0, 0>>,
                         latched |-> <<0, 0>>, sets |-> 0]]
    /\ twin = TwinOff

\* the register writes the program makes at the PPU's position
GridWrites(p) ==
    IF p.m_frame = PlainFrames - 1
    THEN (IF FrameCycle(p) = FrameDots - 2 /\ p.m_mask = 0 THEN {<<8193, 8>>} ELSE {})
    ELSE IF p.m_frame = PlainFrames /\ FrameCycle(p) >= FrameDots - GridBefore
    THEN {<<8193, 0>>, <<8193, 8>>, <<8192, 128>>}
    ELSE {}

\* the register reads the program makes at the PPU's position
GridReads(p) ==
    IF /\ p.m_frame = PlainFrames
       /\ \/ (p.m_scanline = VBlankLine /\ p.m_cycle <= 2)
          \/ FrameCycle(p) >= FrameDots - 1
    THEN {8194}
    ELSE {}

\* one pass of the dot loop without the CPU: PPU::step, check_nmi,
\* check_frame_complete
PpuStep ==
    /\ ppu.m_frame <= PlainFrames
    /\ \E s \in {Bus_ppu_step(Machine)} :
      \E k \in {PPU_check_nmi(s.m.ppu)} :
          LET f == PPU_check_frame_complete(k.ppu)
              q == f.ppu
              wrap == q.m_frame # ppu.m_frame
          IN  /\ Commit([s.m EXCEPT !.ppu = q])
              /\ ghost' = [GridFrom(ppu, "step") EXCEPT
                     !.nmi = k.ret,
                     !.frame_complete = f.ret,
                     !.frame_start = s.frame_start,
                     !.reads = IF wrap THEN {} ELSE @,
                     !.ctrl_at = IF wrap THEN 0 - 1 ELSE @,
                     !.vbl_output = IF wrap THEN FALSE
                                    ELSE IF FrameCycle(q) = VblFc
                                    THEN ppu.m_nmi_output ELSE @,
                     !.nmi_at = IF wrap THEN {}
                                ELSE IF k.ret # 0 THEN @ \cup {FrameCycle(q)}
                                ELSE @,
                     !.completes = IF wrap THEN 0
                                   ELSE IF f.ret THEN @ + 1 ELSE @,
                     !.read0_prev = IF wrap THEN (VblFc - 1) \in ghost.reads
                                    ELSE @,
                     !.output_prev = IF wrap THEN ghost.vbl_output ELSE @]
    /\ UNCHANGED <<nes, loop, twin>>

\* a CPU write (Bus::cpu_write) to a register or to RAM
PpuRegWrite(address, value) ==
    /\ \E w \in {Bus_cpu_write(Machine, address, value)} : Commit(w.m)
    /\ ghost' = [GridFrom(ppu, "write") EXCEPT
                   !.addr = address, !.value = value,
                   !.mask_frame = IF address = 8193 THEN ppu.m_frame ELSE @,
                   !.ctrl_at = IF address = 8192 THEN FrameCycle(ppu) ELSE @,
                   !.pad = IF address # 16406 THEN @
                           ELSE IF value % 2 = 1
                           THEN [@ EXCEPT !.seq = "high", !.n = <<0, 0>>,
                                          !.latched = ghost.pad.masks]
                           ELSE IF @.seq = "high" THEN [@ EXCEPT !.seq = "low"]
                           ELSE @]
    /\ UNCHANGED <<nes, loop, twin>>

\* a CPU read (Bus::cpu_read) of a register
PpuRegRead(address) ==
    /\ \E r \in {Bus_cpu_read(Machine, address)} :
          /\ Commit(r.m)
          /\ ghost' = [GridFrom(ppu, "read") EXCEPT
                         !.addr = address,
                         !.data = r.data,
                         !.reads = @ \cup {FrameCycle(ppu)},
                         !.pad = IF address \notin {16406, 16407} THEN @
                                 ELSE IF @.seq = "high" THEN [@ EXCEPT !.seq = "dirty"]
                                 ELSE IF @.seq = "low"
                                 THEN [@ EXCEPT !.n[address - 16405] = @ + 1]
                                 ELSE @]
    /\ UNCHANGED <<nes, loop, twin>>

NextPPU ==
    \/ PpuStep
    \/ \E w \in GridWrites(ppu) : PpuRegWrite(w[1], w[2])
    \/ \E a \in GridReads(ppu) : PpuRegRead(a)

SpecPPU == InitPPU /\ [][NextPPU]_vars

\* C11: with PPUMASK not rewritten during the frame, PPU::step goes from
\* (261,339) to (0,0) when the frame is odd and PPUMASK has bit 3 or 4 set
\* (the frame has 89341 dots and (261,340) is not visited), and to
\* (261,340) otherwise (the frame has 89342 dots); a step that reaches
\* (0,0) increments the frame counter, toggles odd_frame and calls
\* notify_frame_start, and no other step does any of these.
C11_OddFrameSkip ==
    LET from == (ghost.scanline * DotsPerLine) + ghost.cycle
        to == FrameCycle(ppu)
        steady == ghost.mask_frame < ghost.frame
    IN  ghost.op = "step" =>
          /\ (steady /\ from = FrameDots - 2) =>
                IF ghost.odd /\ RenderingOn(ppu.m_mask)
                THEN to = 0 ELSE to = FrameDots - 1
          /\ to = 0 => /\ ppu.m_frame = ghost.frame + 1
                       /\ ppu.m_odd_frame = ~ghost.odd
                       /\ ghost.frame_start
          /\ to # 0 => /\ ppu.m_frame = ghost.frame
                       /\ ppu.m_odd_frame = ghost.odd
                       /\ ~ghost.frame_start

\* C27: in the step from (261,339) of an odd frame, which decides the skip
\* of (261,340), the mask that decides is m_mask_prev exactly when PPUMASK
\* was written in this frame at most 2 dots before the decision dot
\* 261*341+340, and m_mask otherwise (never written, written earlier in
\* the frame, or written in an earlier frame): the step reaches (0,0)
\* exactly when that mask has bit 3 or 4 set.
C27_MaskArbitration ==
    LET from == (ghost.scanline * DotsPerLine) + ghost.cycle
        decision_cycle == (LastScanline * DotsPerLine) + LastCycle
        recent == /\ ghost.mask_frame = ghost.frame
                  /\ ppu.m_mask_write_cycle <= decision_cycle
                  /\ decision_cycle - ppu.m_mask_write_cycle <= 2
        effective_mask == IF recent THEN ppu.m_mask_prev ELSE ppu.m_mask
    IN  (ghost.op = "step" /\ ghost.odd /\ from = decision_cycle - 1) =>
            (FrameCycle(ppu) = 0 <=> RenderingOn(effective_mask))

---------------------------------------------------------------------------
(* Specification of the VBlank flag and the NMI: the same dot loop and     *)
(* register accesses with rendering off, dot by dot inside the windows     *)
(* around (241,1), (261,0) and the frame wrap; the dots between the        *)
(* windows pass without a register access.  In every frame the program may *)
(* read PPUSTATUS at (241,0..3) and at (241,16), and write PPUCTRL at the  *)
(* first dot, at (241,2) and at (241,5).                                   *)

\* PPU::step applied from a dot outside the windows to the first dot of
\* the next window
PpuIdle ==
    /\ ppu.m_frame <= PlainFrames
    /\ ~InWindow(FrameCycle(ppu))
    /\ QuietOK(Machine)
    /\ LET fc == FrameCycle(ppu)
           n == IF fc < VblFc - Margin THEN (VblFc - Margin) - fc
                ELSE IF fc < PreFc - Margin THEN (PreFc - Margin) - fc
                ELSE (FrameDots - WinBefore) - fc
       IN  ppu' = PPU_idle_run(ppu, n)
    /\ ghost' = GridFrom(ppu, "idle")
    /\ UNCHANGED <<nes, cpu, apu, bus, mapper, loop, twin>>

NextVbl ==
    \/ InWindow(FrameCycle(ppu)) /\ PpuStep
    \/ PpuIdle
    \/ \E value \in IF FrameCycle(ppu) = 0 /\ ~ppu.m_nmi_output THEN {128}
                    ELSE IF FrameCycle(ppu) = VblFc + 1 THEN {0}
                    ELSE IF FrameCycle(ppu) = VblFc + 4 THEN {128}
                    ELSE {} :
          ppu.m_frame <= PlainFrames /\ PpuRegWrite(8192, value)
    \/ /\ ppu.m_frame <= PlainFrames
       /\ ppu.m_scanline = VBlankLine
       /\ ppu.m_cycle \in {0, 1, 2, 3, 16}
       /\ FrameCycle(ppu) \notin ghost.reads
       /\ PpuRegRead(8194)

SpecVbl == InitPPU /\ [][NextVbl]_vars

\* the NMI events raised and not yet reported by check_nmi
PendingNmi(p) ==
    (IF p.m_nmi_triggered THEN 1 ELSE 0)
        + (IF p.m_nmi_triggered_delayed THEN 1 ELSE 0)

\* C28: in every pass of the dot loop, check_frame_complete returns true
\* exactly when the step reached (241,1) and leaves the flag clear;
\* check_nmi returns non-zero exactly when an NMI event is waiting (1 for
\* an immediate one, 2 for a delayed one) and takes exactly that event
\* away, so that it is not reported again; each event is raised while its
\* flag is clear, so none is lost.
C28_OneShot ==
    [][ /\ ghost'.op = "step" =>
             LET s == Bus_ppu_step(Machine).m.ppu
             IN  /\ ~ppu.m_frame_complete
                 /\ ~ppu.m_nmi_triggered
                 /\ ghost'.frame_complete <=> (FrameCycle(ppu') = VblFc)
                 /\ ~ppu'.m_frame_complete
                 /\ ghost'.completes =
                        (IF FrameCycle(ppu') = 0 THEN 0
                         ELSE ghost.completes
                                  + (IF FrameCycle(ppu') = VblFc THEN 1 ELSE 0))
                 /\ ghost'.nmi # 0 <=> PendingNmi(s) > 0
                 /\ ghost'.nmi = 1 => s.m_nmi_triggered
                 /\ ghost'.nmi = 2 => s.m_nmi_triggered_delayed
                 /\ PendingNmi(ppu') = PendingNmi(s) - (IF ghost'.nmi # 0 THEN 1 ELSE 0)
        /\ (ghost'.op = "write" /\ ppu'.m_nmi_triggered_delayed) =>
             \/ ~ppu.m_nmi_triggered_delayed
             \/ ~(~ppu.m_nmi_output /\ ppu'.m_nmi_output /\ ppu.m_nmi_occurred
                  /\ ~ppu.m_suppress_nmi)
      ]_vars

\* a delayed NMI has just been reported, in a frame whose frame-complete
\* signal was given once, and is no longer waiting
C28_Witness ==
    /\ ghost.op = "step"
    /\ ghost.nmi = 2
    /\ ghost.completes = 1
    /\ PendingNmi(ppu) = 0
    /\ ~ppu.m_frame_complete


\* C12: PPU::step sets PPUSTATUS bit 7 only in the step that reaches
\* (241,1), and there exactly if no $2002 read happened at (241,0) of this
\* frame; bit 7 is cleared only by the step that reaches (261,0) and by a
\* $2002 read, which both leave it clear; so in a frame without $2002
\* reads bit 7 is set exactly from (241,1) through (260,340).
C12_VBlankFlag ==
    LET to == FrameCycle(ppu)
        after == Bit(ppu.m_status, 7) = 1
        read0 == (VblFc - 1) \in ghost.reads
        reached(fc) == ghost.op = "step" /\ to = fc
    IN  /\ (after /\ ~ghost.vbl) => (reached(VblFc) /\ ~read0)
        /\ (reached(VblFc) /\ ~read0) => after
        /\ (~after /\ ghost.vbl) => (reached(PreFc) \/ ghost.op = "read")
        /\ (reached(PreFc) \/ ghost.op = "read") => ~after
        /\ ghost.reads = {} => (after <=> (to >= VblFc /\ to < PreFc))

\* C12 case: the step that reaches (241,1) of the second frame has just
\* set bit 7, no $2002 read having happened in that frame
C12_Witness ==
    /\ ghost.op = "step"
    /\ FrameCycle(ppu) = VblFc
    /\ ~ghost.vbl
    /\ Bit(ppu.m_status, 7) = 1
    /\ ppu.m_frame = 1
    /\ ghost.reads = {}

\* C13: a $2002 read made while the PPU is at (241,0) returns bit 7 clear;
\* for the rest of that frame bit 7 stays clear and check_nmi reports
\* nothing, also with NMI output enabled, and bit 7 is still clear in the
\* next frame before (241,1); the step that reaches (241,1) still makes
\* check_frame_complete return true; in the next frame the step that
\* reaches (241,1) sets bit 7 and, with NMI output enabled and no register
\* access in the window, latches the NMI, which check_nmi reports.
C13_VblSuppression ==
    LET to == FrameCycle(ppu)
        after == Bit(ppu.m_status, 7) = 1
        read0 == (VblFc - 1) \in ghost.reads
        reached(fc) == ghost.op = "step" /\ to = fc
        quiet == ghost.reads = {} /\ ghost.ctrl_at < VblFc - 1
    IN  /\ (ghost.op = "read" /\ ghost.scanline = VBlankLine /\ ghost.cycle = 0)
              => Bit(ghost.data, 7) = 0
        /\ read0 => (~after /\ ghost.nmi_at = {})
        /\ (ghost.read0_prev /\ to < VblFc) => ~after
        /\ reached(VblFc) => (ghost.frame_complete /\ ghost.completes = 1)
        /\ (ghost.read0_prev /\ reached(VblFc) /\ ~read0) => after
        /\ (ghost.read0_prev /\ reached(VblFc) /\ quiet /\ ghost.vbl_output)
              => ppu.m_nmi_latched
        /\ (ghost.read0_prev /\ quiet /\ ghost.vbl_output
              /\ to >= VblFc + NmiDelayDots) => ghost.nmi_at # {}

\* C13 case: check_nmi has reported the NMI of a frame that follows a frame
\* in which NMI output was enabled and $2002 was read at (241,0)
C13_Witness ==
    /\ ghost.read0_prev
    /\ ghost.output_prev
    /\ ghost.nmi_at # {}
    /\ Bit(ppu.m_status, 7) = 1

\* C14: a $2002 read made while the PPU is at (241,1) or (241,2), the first
\* read since (241,0), returns bit 7 set; after a read at (241,1) or
\* (241,2) check_nmi reports nothing for the rest of the frame and no NMI
\* is latched or counting down; when the first read of the window is made
\* at (241,3) or later, with NMI output enabled and PPUCTRL not written in
\* the window, check_nmi reports the NMI.
C14_NmiSuppressionWindow ==
    LET to == FrameCycle(ppu)
        from == (ghost.scanline * DotsPerLine) + ghost.cycle
        early == {VblFc - 1, VblFc, VblFc + 1}
    IN  /\ (ghost.op = "read" /\ from \in {VblFc, VblFc + 1}
              /\ ghost.reads \cap early = {from}) => Bit(ghost.data, 7) = 1
        /\ (ghost.reads \cap {VblFc, VblFc + 1} # {})
              => /\ ghost.nmi_at = {}
                 /\ ~ppu.m_nmi_latched
                 /\ ppu.m_nmi_delay = 0
        /\ (ghost.reads # {} /\ ghost.reads \cap early = {}
              /\ ghost.vbl_output /\ ghost.ctrl_at < VblFc - 1
              /\ to >= VblFc + NmiDelayDots) => ghost.nmi_at # {}

\* C14 case: with NMI output enabled $2002 was read at (241,2), the read
\* returned bit 7 set, and the PPU has passed (241,16) without an NMI
C14_Witness ==
    /\ ghost.vbl_output
    /\ ghost.reads = {VblFc + 1}
    /\ ghost.ctrl_at < VblFc - 1
    /\ FrameCycle(ppu) > VblFc + NmiDelayDots
    /\ ghost.nmi_at = {}

\* C15: with NMI output enabled and no $2002 read or PPUCTRL write in the
\* window, the step reaching (241,1) latches the NMI; check_nmi reports an
\* immediate NMI not before NmiDelayDots dots have elapsed after (241,1),
\* and exactly once in the frame.
C15_NmiDelay ==
    LET to == FrameCycle(ppu)
        quiet == /\ ghost.vbl_output /\ ghost.reads = {}
                 /\ ghost.ctrl_at < VblFc - 1
    IN  quiet =>
          /\ (ghost.op = "step" /\ to = VblFc) => ppu.m_nmi_latched
          /\ ghost.nmi = 1 => to >= VblFc + NmiDelayDots
          /\ Cardinality(ghost.nmi_at) <= 1
          /\ to >= VblFc + NmiDelayDots => Cardinality(ghost.nmi_at) = 1

\* C10: the PPU position stays on the grid 0..261 x 0..340; a register
\* access leaves it where it was; PPU::step moves it to the next dot in
\* row-major order, (261,340) wrapping to (0,0), except that on an odd
\* frame with rendering on the step from (261,339) goes to (0,0).
C10_TimingGrid ==
    LET from == (ghost.scanline * DotsPerLine) + ghost.cycle
        to == FrameCycle(ppu)
        skip == /\ ghost.scanline = LastScanline /\ ghost.cycle = LastCycle - 1
                /\ ghost.odd /\ ghost.rendering
    IN  /\ ppu.m_scanline \in 0..LastScanline
        /\ ppu.m_cycle \in 0..LastCycle
        /\ ghost.op \in {"read", "write"} => to = from
        /\ ghost.op = "step" =>
              IF skip THEN to = 0 ELSE to = (from + 1) % FrameDots

\* C10 case: PPU::step has just taken the odd-frame skip from (261,339)
C10_Witness ==
    /\ ghost.op = "step"
    /\ ghost.scanline = LastScanline /\ ghost.cycle = LastCycle - 1
    /\ ghost.odd /\ ghost.rendering
    /\ ppu.m_scanline = 0 /\ ppu.m_cycle = 0

---------------------------------------------------------------------------
(* Specification of the bus's controller ports and OAM DMA.  One program  *)
(* strobes and reads the controller ports while the host sets the button  *)
(* masks; another fills bytes of a RAM page, sets OAMADDR and starts an   *)
(* OAM DMA.                                                               *)

\* set_controller_state calls
MaxSets == 2
\* reads of one port after a strobe
MaxReads == 10
\* reads of the other port made before them
OtherReads == 2

\* the host's Bus::set_controller_state(controller, buttons)
PadSet(controller, buttons) ==
    /\ ghost.pad.sets < MaxSets
    /\ bus' = Bus_set_controller_state(bus, controller, buttons)
    /\ ghost' = [GridFrom(ppu, "set") EXCEPT
                   !.pad = [@ EXCEPT !.masks[controller + 1] = buttons,
                                     !.sets = @ + 1,
                                     !.seq = IF @ = "high" THEN "dirty" ELSE @]]
    /\ UNCHANGED <<nes, cpu, ppu, apu, mapper, loop, twin>>

NextPad ==
    LET pads == /\ bus.m_ram = ZeroArray /\ ppu.m_oam_addr = 0
                /\ bus.m_pending_dma_cycles = 0
        dma == /\ ghost.pad.sets = 0 /\ ghost.pad.seq = "none"
               /\ bus.m_pending_dma_cycles = 0
    IN  \/ \E c \in {0, 1} :
           \E buttons \in {0, 4095} \cup (IF ghost.pad.seq = "low" THEN {}
                                           ELSE {2 ^ k : k \in 0..11}) :
              pads /\ PadSet(c, buttons)
        \/ \E value \in {0, 1} : pads /\ PpuRegWrite(16406, value)
        \/ \E c \in {0, 1} :
              /\ pads
              /\ ghost.pad.seq \in {"high", "low"}
              /\ ghost.pad.n[c + 1] < MaxReads
              /\ ghost.pad.n[2 - c] <= OtherReads
              /\ PpuRegRead(16406 + c)
        \/ \E address \in {512, 767, 1792} : \E value \in {1, 2} :
              dma /\ ArrGet(bus.m_ram, address) = 0 /\ PpuRegWrite(address, value)
        \/ \E value \in {0, 1, 255} : dma /\ PpuRegWrite(8195, value)
        \/ \E page \in {2, 7} : dma /\ PpuRegWrite(16404, page)

SpecPad == InitPPU /\ [][NextPad]_vars

\* C18: a $4016 / $4017 read made while the strobe is high returns the
\* current A-button state of that controller in bit 0, and when a $4016
\* write takes the strobe from high to low the shift registers hold the
\* current button states.
C18_StrobeHigh ==
    /\ (ghost.op = "read" /\ ghost.addr \in {16406, 16407} /\ ghost.strobe)
          => Bit(ghost.data, 0) = Bit(bus.m_controller_state[ghost.addr - 16405], 0)
    /\ (ghost.op = "write" /\ ghost.addr = 16406
          /\ ghost.strobe /\ ~bus.m_controller_strobe)
          => bus.m_controller_shift = bus.m_controller_state

\* C19: after a $4016 write with bit 0 set directly followed by one with
\* bit 0 clear, the k-th read of a port, k = 1..8, returns in bit 0 whether
\* the mask set for that controller when the strobe was written contains
\* A (0x001), B (0x002), Select (0x080), Start (0x040), Up (0x100), Down
\* (0x200), Left (0x400), Right (0x800); every later read returns bit 0 = 1;
\* every read has bit 6 set; a read leaves the other controller's shift
\* register as it was.
C19_ReadSequence ==
    (ghost.op = "read" /\ ghost.addr \in {16406, 16407}) =>
        LET c == ghost.addr - 16406
            k == ghost.pad.n[c + 1]
            order == <<0, 1, 7, 6, 8, 9, 10, 11>>
        IN  /\ Bit(ghost.data, 6) = 1
            /\ bus.m_controller_shift[2 - c] = ghost.shift[2 - c]
            /\ (ghost.pad.seq = "low" /\ k <= 8)
                  => Bit(ghost.data, 0) = Bit(ghost.pad.latched[c + 1], order[k])
            /\ (ghost.pad.seq = "low" /\ k > 8) => Bit(ghost.data, 0) = 1

\* C19 case: with Right pressed on controller 1 and A on controller 0, the
\* eighth read of $4017 after the strobe has returned 1, after two reads
\* of $4016
C19_Witness ==
    /\ ghost.op = "read" /\ ghost.addr = 16407
    /\ ghost.pad.seq = "low"
    /\ ghost.pad.latched = <<1, 2048>>
    /\ ghost.pad.n = <<2, 8>>
    /\ ghost.data = 65

\* C20: after a CPU write of page P to $4014, OAM holds at index
\* (OAMADDR + i) mod 256 the byte at CPU address P * 256 + i, for every
\* i in 0..255.
C20_OamDmaDestination ==
    (ghost.op = "write" /\ ghost.addr = 16404) =>
        \A i \in 0..255 :
            ArrGet(ppu.m_oam, (ppu.m_oam_addr + i) % 256)
                = ArrGet(bus.m_ram, ((ghost.value * 256) + i) % 2048)

---------------------------------------------------------------------------
(* Properties of Mapper004 under SpecA12 *)

\* C6: the IRQ counter is clocked only by a notification that takes A12
\* (bit 12 of the notified PPU-bus address) from low to high after A12 was
\* low for at least FILTER_THRESHOLD dots.
C6_ClockOnlyOnFilteredRise ==
    ghost.ev.clocked => (ghost.ev.rise /\ ghost.ev.low >= FILTER_THRESHOLD)

\* C7: every notification that takes A12 from low to high after at least
\* FILTER_THRESHOLD dots of low clocks the IRQ counter, also when the low
\* period contains a frame start.
C7_FilteredRiseClocks ==
    (ghost.ev.rise /\ ghost.ev.low >= FILTER_THRESHOLD) => ghost.ev.clocked

\* C9: right after a write to an even address in $E000-$FFFE the IRQ is
\* disabled and nothing is pending or scheduled; right after a write to an
\* odd address in $E001-$FFFF the IRQ is enabled, and irq_pending() is true
\* only if it was true before the write.
C9_IrqRegisters ==
    /\ ghost.op = "even" =>
          /\ ~mapper.m_irq_enabled
          /\ ~mapper.m_irq_pending
          /\ mapper.m_irq_pending_at_cycle = 0
          /\ ~IrqVisible(mapper)
    /\ ghost.op = "odd" =>
          /\ mapper.m_irq_enabled
          /\ IrqVisible(mapper) => ghost.vis_before

\* C9 case: the enable register has just been written with the counter at
\* 0 after a clock reloaded it from a non-zero latch and counted it down,
\* and no IRQ is visible.
C9_Witness ==
    /\ ghost.op = "odd"
    /\ mapper.m_irq_counter = 0
    /\ mapper.m_irq_latch > 0
    /\ ~mapper.m_irq_reload
    /\ ~IrqVisible(mapper)

---------------------------------------------------------------------------
(* Properties of the MMC3 in the run loop, under SpecMMC3 *)

\* C8: when the run loop is past its poll, no IRQ is owed: every clock
\* that left the counter at 0 with the IRQ enabled has been followed by
\* trigger_irq or by a write to the IRQ-disable register.
C8_IrqDelivered ==
    loop.pc \in {"cpu", "end", "idle"} => ~ghost.irq_owed

---------------------------------------------------------------------------
(* Specification of savestates between run_frame calls: the host saves    *)
(* the core and loads the blob, whole or cut short, into a second core    *)
(* that has just loaded the same ROM; both cores then run the same frames. *)

\* the components after load_rom
CoreLoaded ==
    [ cpu |-> CPU_new, ppu |-> PPU_reset, apu |-> APU_reset, bus |-> Bus_new,
      mapper |-> Mapper004_reset(PrgBanks * 8192, ChrBanks * 1024, MirrorHorizontal) ]

InitSave ==
    /\ nes = NesLoaded
    /\ cpu = CoreLoaded.cpu
    /\ ppu = CoreLoaded.ppu
    /\ apu = CoreLoaded.apu
    /\ bus = CoreLoaded.bus
    /\ mapper = CoreLoaded.mapper
    /\ loop = LoopIdle
    /\ ghost = GhostInit
    /\ twin = TwinOff

\* what an uninitialized byte holds
Junk == {0, 1}

\* save_state on this core, then load_state of the first len bytes on the
\* second core: of no byte, half a header, the header, the header and the
\* CPU, all but the last byte, or all.  Blobs cut short are tried after the
\* last frame.
Restore ==
    /\ loop.pc = "idle"
    /\ ~twin.on
    /\ \E sv \in {NESPlugin_save_state(nes, Machine)} :
       \E len \in {0, 8, 16, 25, Len(sv.data) - 1, Len(sv.data)}, junk \in Junk :
          /\ sv.ret
          /\ len < Len(sv.data) => nes.m_frame_count = MaxFrames
          /\ \E ld \in {NESPlugin_load_state(NesLoaded, CoreLoaded,
                                             SubSeq(sv.data, 1, len), junk)} :
                twin' = IF len = Len(sv.data)
                        THEN [ on |-> TRUE, short |-> FALSE, ret |-> ld.ret,
                               diverged |-> ld.nes # nes,
                               run |-> ld.nes = nes /\ ld.m # Machine,
                               nes |-> ld.nes,
                               m |-> IF ld.nes = nes /\ ld.m # Machine
                                     THEN ld.m ELSE <<>> ]
                        ELSE [ on |-> TRUE, short |-> TRUE, ret |-> ld.ret,
                               diverged |-> FALSE, run |-> FALSE,
                               nes |-> ld.nes, m |-> ld.m ]
    /\ UNCHANGED <<nes, cpu, ppu, apu, bus, mapper, loop, ghost>>

NextSave ==
    \/ \E b \in Buttons : RunFrameBegin(b)
    \/ \E ins \in InsFrame : CpuStep(ins)
    \/ PpuDot
    \/ Poll
    \/ RunFrameEnd
    \/ QuietStretch
    \/ Restore

SpecSave == InitSave /\ [][NextSave]_vars

\* C1: a core restored from a savestate of a state between two run_frame
\* calls, run on with the same inputs, goes through the same CPU states,
\* NMI and IRQ deliveries and frame ends as the core that was saved.
C1_RestoredCoreBehavesAlike == (twin.on /\ ~twin.short) => ~twin.diverged

\* C5: load_state of a blob that is shorter than the savestate returns
\* false and leaves frame count, cycle count and every component of the
\* core as they were.
C5_ShortBlobRejected ==
    (twin.on /\ twin.short) =>
        /\ ~twin.ret
        /\ twin.nes = NesLoaded
        /\ twin.m = CoreLoaded

---------------------------------------------------------------------------
(* Specification of save_state and load_state as functions of the core:   *)
(* cores of every supported mapper with distinct values in the fields,    *)
(* saved, loaded (into the same core, or into a core that has just loaded *)
(* the same ROM) and saved again.                                         *)

\* number of field patterns tried for each mapper
MaxPattern == 3

\* the value pattern p puts into field f, the i-th of its component: of
\* the field's type, different from the neighbouring fields' values
PatternValue(p, i, f) ==
    LET PatternByte(k) == ((p * 31) + (i * 7) + (k * 101)) % 256
    IN  IF f.kind = "flag" THEN (p + i) % 2 = 1
        ELSE IF f.kind = "array"
        THEN [j \in {0, ((p * 7) + i) % f.w, f.w - 1} |-> ((p + j) % 255) + 1]
        ELSE IF f.name = "m_mirror_mode" THEN (p + i) % 5
        ELSE PatternByte(0)
               + (IF f.w >= 2 THEN 256 * PatternByte(1) ELSE 0)
               + (IF f.w >= 4
                  THEN (65536 * PatternByte(2))
                         + (16777216 * (PatternByte(3) % 128))
                  ELSE 0)

\* a core of the given mapper with pattern p in every field a save_state
\* writes
PatternCore(p, mapper_number) ==
    LET RECURSIVE F(_, _, _, _, _)
        F(rec, fields, q, lo, hi) ==
            IF lo > hi THEN rec
            ELSE IF lo = hi
            THEN FieldSet(rec, fields[lo], PatternValue(q, lo, fields[lo]))
            ELSE Let(F(rec, fields, q, lo, (lo + hi) \div 2), LAMBDA r :
                     F(r, fields, q, ((lo + hi) \div 2) + 1, hi))
        Fill(rec, fields, q) ==
            Let(fields, LAMBDA l : Let(rec, LAMBDA r : F(r, l, q, 1, Len(l))))
    IN  [ cpu |-> Fill(CPU_new, CPU_save_state, p),
          ppu |-> Fill(PPU_reset, PPU_save_state, p + 1),
          apu |-> Fill(APU_reset, APU_save_state, p + 2),
          bus |-> Fill(Bus_new, Bus_save_state, p + 9),
          mapper |-> Let(create_mapper(mapper_number, MirrorHorizontal), LAMBDA d :
                     Let(Fill(d.new, d.save_state, p + 10), LAMBDA m :
                         IF mapper_number = 4 THEN Mapper004_update_banks(m)
                         ELSE m)) ]

InitBlob ==
    \E p \in 1..MaxPattern,
       mapper_number \in {0, 1, 2, 3, 4, 7, 9, 10, 11, 34, 66, 71, 79, 206} :
    \E c \in {PatternCore(p, mapper_number)} :
        /\ nes = [NesLoaded EXCEPT !.m_frame_count = p,
                                   !.m_total_cycles = (29780 * p) + p]
        /\ cpu = c.cpu
        /\ ppu = c.ppu
        /\ apu = c.apu
        /\ bus = c.bus
        /\ mapper = c.mapper
        /\ loop = LoopIdle
        /\ ghost = GhostInit
        /\ twin = [phase |-> "core", fresh |-> FALSE, ret |-> TRUE,
                   data |-> <<>>, data2 |-> <<>>, nes |-> <<>>, m |-> <<>>]

\* save_state on the core
BlobSave ==
    /\ twin.phase = "core"
    /\ \E sv \in {NESPlugin_save_state(nes, Machine)} :
          twin' = [twin EXCEPT !.phase = "saved", !.data = sv.data,
                               !.ret = sv.ret]
    /\ UNCHANGED <<nes, cpu, ppu, apu, bus, mapper, loop, ghost>>

\* load_state of the blob on the core that made it
BlobLoadSame ==
    /\ twin.phase = "saved"
    /\ \E junk \in Junk :
       \E ld \in {NESPlugin_load_state(nes, Machine, twin.data, junk)} :
          /\ nes' = ld.nes
          /\ Commit(ld.m)
          /\ twin' = [twin EXCEPT !.phase = "loaded", !.ret = @ /\ ld.ret]
    /\ UNCHANGED <<loop, ghost>>

\* load_state of the blob on a second core that has just loaded the ROM
BlobLoadFresh ==
    /\ twin.phase = "saved"
    /\ \E junk \in Junk :
       \E ld \in {NESPlugin_load_state(NesLoaded,
                     [CoreLoaded EXCEPT
                        !.mapper = create_mapper(mapper.num, MirrorHorizontal).new],
                     twin.data, junk)} :
          twin' = [twin EXCEPT !.phase = "loaded", !.fresh = TRUE,
                               !.ret = @ /\ ld.ret,
                               !.nes = ld.nes, !.m = ld.m]
    /\ UNCHANGED <<nes, cpu, ppu, apu, bus, mapper, loop, ghost>>

\* save_state on the core that was loaded
BlobResave ==
    /\ twin.phase = "loaded"
    /\ \E sv \in {IF twin.fresh THEN NESPlugin_save_state(twin.nes, twin.m)
                  ELSE NESPlugin_save_state(nes, Machine)} :
          twin' = [twin EXCEPT !.phase = "resaved", !.data2 = sv.data,
                               !.ret = @ /\ sv.ret]
    /\ UNCHANGED <<nes, cpu, ppu, apu, bus, mapper, loop, ghost>>

NextBlob == BlobSave \/ BlobLoadSame \/ BlobLoadFresh \/ BlobResave

SpecBlob == InitBlob /\ [][NextBlob]_vars

\* C4: save_state, load_state of that blob and save_state again succeed
\* and give the same bytes as the first save_state, for every mapper and
\* whichever core the blob is loaded into.
C4_ResaveByteIdentical ==
    twin.phase = "resaved" => (twin.ret /\ twin.data2 = twin.data)

\* an MMC3 core with patterned APU, RAM and bank registers went through a
\* second core and came out with the same fields
C4_Witness ==
    /\ twin.phase = "resaved"
    /\ twin.fresh
    /\ mapper.num = 4
    /\ Len(twin.data) > 4096
    /\ apu # APU_reset /\ twin.m.apu = apu
    /\ bus.m_ram # ZeroArray /\ twin.m.bus.m_ram = bus.m_ram
    /\ bus.m_controller_shift[1] # bus.m_controller_shift[2]
    /\ twin.m.mapper.m_registers = mapper.m_registers
    /\ mapper.m_registers # [i \in 0..7 |-> 0]

---------------------------------------------------------------------------
(* The 6502 core with its opcodes decoded.  The bytes CPU::step fetches    *)
(* through m_pc++ (opcode and operands) are an input, code; every other    *)
(* read goes to memory: internal RAM through the bus, and the cartridge's  *)
(* PRG ROM rom (an NROM cartridge, a function from CPU addresses to its    *)
(* non-zero bytes), which holds the vectors.                               *)

\* uint8_t CPU::read(address)
CPU_read(M, rom, address) ==
    IF address >= 32768 THEN ArrGet(rom, address)
    ELSE Bus_cpu_read(M, address).data

\* the 16-bit word at address and address + 1 (lo, hi)
CPU_read16(M, rom, address) ==
    CPU_read(M, rom, address) + (256 * CPU_read(M, rom, U16(address + 1)))

\* void CPU::set_flag(flag, value), flag given by its bit number
CPU_set_flag(status, n, value) ==
    IF value THEN status + ((2 ^ n) * (1 - Bit(status, n)))
    ELSE status - ((2 ^ n) * Bit(status, n))

\* uint8_t CPU::pop(): the machine with m_sp incremented, and the byte
CPU_pop(M, rom) ==
    LET sp == U8(M.cpu.m_sp + 1)
    IN  [m |-> [M EXCEPT !.cpu.m_sp = sp], data |-> CPU_read(M, rom, 256 + sp)]

\* The pointer's second byte read from the following address.
CPU_addr_indirect_no_wrap(M, rom, ptr_lo, ptr_hi) ==
    LET ptr == (ptr_hi * 256) + ptr_lo
        ptr_next == U16(ptr + 1)
    IN  CPU_read(M, rom, ptr) + (256 * CPU_read(M, rom, ptr_next))

\* uint16_t CPU::addr_indirect(), the two operand bytes given
CPU_addr_indirect(M, rom, ptr_lo, ptr_hi) ==
    LET ptr == (ptr_hi * 256) + ptr_lo
        ptr_next == ((ptr \div 256) * 256) + ((ptr + 1) % 256)
    IN  CPU_read(M, rom, ptr) + (256 * CPU_read(M, rom, ptr_next))

\* void CPU::op_branch(condition), m_pc at the operand byte `operand`: the
\* new m_pc
CPU_op_branch(pc, operand, condition) ==
    LET offset == IF operand >= 128 THEN operand - 256 ELSE operand
        old_pc == U16(pc + 1)
    IN  IF condition THEN U16(old_pc + offset + 65536) ELSE old_pc

\* void CPU::op_brk(), m_pc after the opcode fetch
CPU_op_brk(M, rom) ==
    LET c == M.cpu
        pc == U16(c.m_pc + 1)
        status == c.m_status + (16 * (1 - Bit(c.m_status, 4)))
                             + (32 * (1 - Bit(c.m_status, 5)))
    IN  Let(CPU_push(M, pc \div 256), LAMBDA m1 :
        Let(CPU_push(m1, pc % 256), LAMBDA m2 :
        Let(CPU_push(m2, status), LAMBDA m3 :
            [m3 EXCEPT !.cpu.m_status = CPU_set_flag(@, 2, TRUE),
                       !.cpu.m_pc = CPU_read16(m3, rom, 65534)])))

\* the opcodes of the conditional branches and the flag bit and flag value
\* each tests: BPL, BMI, BVC, BVS, BCC, BCS, BNE, BEQ
Branches ==
    [op \in {16, 48, 80, 112, 144, 176, 208, 240} |->
        [bit |-> IF op \in {16, 48} THEN 7 ELSE IF op \in {80, 112} THEN 6
                 ELSE IF op \in {144, 176} THEN 0 ELSE 1,
         set |-> op \in {48, 112, 176, 240}]]

\* int CPU::step() with the fetched bytes code = <<opcode, operand,
\* operand>>: the machine after the step, the returned cycle count, and
\* what the step did ("nmi", "irq" or "op").  Of the switch, the cases of
\* the branches, BRK, JMP (indirect), PHP, PLP, PHA, RTI, SEI, CLI, SEC,
\* CLC, LDA #, BIT zp and the 2-cycle default are translated.
CPU_step_decode(M, rom, code) ==
    LET c == M.cpu
        opcode == code[1]
        pc1 == U16(c.m_pc + 1)
        M1 == [M EXCEPT !.cpu.m_pc = pc1]
    IN  IF c.m_nmi_pending
        THEN [m |-> [CPU_interrupt([M EXCEPT !.cpu.m_nmi_pending = FALSE]) EXCEPT
                        !.cpu.m_pc = CPU_read16(M, rom, 65530)],
              cycles |-> InterruptCycles, did |-> "nmi"]
        ELSE IF c.m_irq_pending /\ ~CPU_flag_I(c)
        THEN [m |-> [CPU_interrupt([M EXCEPT !.cpu.m_irq_pending = FALSE]) EXCEPT
                        !.cpu.m_pc = CPU_read16(M, rom, 65534)],
              cycles |-> InterruptCycles, did |-> "irq"]
        ELSE IF opcode \in DOMAIN Branches
        THEN [m |-> [M EXCEPT !.cpu.m_pc =
                        CPU_op_branch(pc1, code[2],
                            (Bit(c.m_status, Branches[opcode].bit) = 1)
                                = Branches[opcode].set)],
              cycles |-> 2, did |-> "op"]
        ELSE IF opcode = 0
        THEN [m |-> CPU_op_brk(M1, rom), cycles |-> 7, did |-> "op"]
        ELSE IF opcode = 108
        THEN [m |-> [M EXCEPT !.cpu.m_pc = CPU_addr_indirect(M, rom, code[2], code[3])],
              cycles |-> 5, did |-> "op"]
        ELSE IF opcode = 8
        THEN [m |-> CPU_push(M1, c.m_status + (16 * (1 - Bit(c.m_status, 4)))
                                            + (32 * (1 - Bit(c.m_status, 5)))),
              cycles |-> 3, did |-> "op"]
        ELSE IF opcode = 40
        THEN Let(CPU_pop(M1, rom), LAMBDA r :
                 [m |-> [r.m EXCEPT !.cpu.m_status =
                            CPU_set_flag(CPU_set_flag(r.data, 4, FALSE), 5, TRUE)],
                  cycles |-> 4, did |-> "op"])
        ELSE IF opcode = 72
        THEN [m |-> CPU_push(M1, c.m_a), cycles |-> 3, did |-> "op"]
        ELSE IF opcode = 64
        THEN Let(CPU_pop(M1, rom), LAMBDA r :
             Let(CPU_pop(r.m, rom), LAMBDA lo :
             Let(CPU_pop(lo.m, rom), LAMBDA hi :
                 [m |-> [hi.m EXCEPT
                            !.cpu.m_status =
                                CPU_set_flag(CPU_set_flag(r.data, 4, FALSE), 5, TRUE),
                            !.cpu.m_pc = (hi.data * 256) + lo.data],
                  cycles |-> 6, did |-> "op"])))
        ELSE IF opcode \in {120, 88}
        THEN [m |-> [M1 EXCEPT !.cpu.m_status = CPU_set_flag(@, 2, opcode = 120)],
              cycles |-> 2, did |-> "op"]
        ELSE IF opcode \in {56, 24}
        THEN [m |-> [M1 EXCEPT !.cpu.m_status = CPU_set_flag(@, 0, opcode = 56)],
              cycles |-> 2, did |-> "op"]
        ELSE IF opcode = 169
        THEN [m |-> [M1 EXCEPT !.cpu.m_pc = U16(pc1 + 1),
                               !.cpu.m_a = code[2],
                               !.cpu.m_status = CPU_update_zero_negative(@, code[2])],
              cycles |-> 2, did |-> "op"]
        ELSE IF opcode = 36
        THEN LET value == CPU_read(M, rom, code[2])
                 and == CHOOSE r \in 0..255 :
                            \A i \in 0..7 : Bit(r, i) = Bit(c.m_a, i) * Bit(value, i)
             IN  [m |-> [M1 EXCEPT !.cpu.m_pc = U16(pc1 + 1),
                                   !.cpu.m_status =
                                       CPU_set_flag(CPU_set_flag(CPU_set_flag(@,
                                           1, and = 0), 7, Bit(value, 7) = 1),
                                           6, Bit(value, 6) = 1)],
                  cycles |-> 3, did |-> "op"]
        ELSE [m |-> M1, cycles |-> 2, did |-> "op"]

---------------------------------------------------------------------------
(* Specification of the 6502 core: from reset, up to MaxSteps calls of    *)
(* CPU::step with every fetched instruction of Programs, and              *)
(* trigger_nmi / trigger_irq between them.                                *)

\* CPU::step calls
MaxSteps == 3

\* the fetched instructions: the eight branches with a forward, a far
\* forward, a far backward and a backward offset; BRK; JMP ($02FF),
\* JMP ($0280), JMP ($03FF); PHP, PLP, PHA, RTI, SEI, CLI, SEC, CLC;
\* LDA #$00, #$80, #$FF; BIT $10; NOP
Programs ==
    {<<op, off, 0>> : op \in DOMAIN Branches, off \in {5, 127, 128, 251}}
    \cup {<<0, 0, 0>>, <<108, 255, 2>>, <<108, 128, 2>>, <<108, 255, 3>>}
    \cup {<<op, 0, 0>> : op \in {8, 40, 72, 64, 120, 88, 56, 24, 234}}
    \cup {<<169, 0, 0>>, <<169, 128, 0>>, <<169, 255, 0>>, <<36, 16, 0>>}

\* the cartridges: PRG ROM with the NMI, reset and IRQ/BRK vectors
Roms ==
    { (65530 :> 64 @@ 65531 :> 3 @@ 65532 :> 240 @@ 65533 :> 2
         @@ 65534 :> 80 @@ 65535 :> 3),
      (65530 :> 16 @@ 65531 :> 128 @@ 65532 :> 128 @@ 65533 :> 2
         @@ 65534 :> 254 @@ 65535 :> 192) }

\* RAM when the program starts: the bytes the pointers of the indirect
\* jumps and BIT $10 read, and $FF at $01FE, the byte a first PLP or RTI
\* pulls
RamAtStart ==
    (16 :> 192 @@ 510 :> 255 @@ 512 :> 18 @@ 640 :> 120 @@ 641 :> 2 @@ 767 :> 52 @@ 768 :> 86
        @@ 1023 :> 171)

\* what is recorded of the last action
CoreGhost(did, code, cycles, steps) ==
    [did |-> did, code |-> code, cycles |-> cycles, steps |-> steps,
     before |-> cpu, ram |-> bus.m_ram]

InitCpu ==
    /\ nes = NesLoaded
    /\ \E rom \in Roms :
          /\ loop = [pc |-> "core", rom |-> rom]
          /\ cpu = [CPU_new EXCEPT !.m_pc = ArrGet(rom, 65532) + (256 * ArrGet(rom, 65533))]
    /\ ppu = PPU_reset
    /\ apu = APU_reset
    /\ bus = [Bus_new EXCEPT !.m_ram = RamAtStart]
    /\ mapper = Mapper000_new(MirrorVertical)
    /\ ghost = [did |-> "none", code |-> <<234, 0, 0>>, cycles |-> 0, steps |-> 0,
                before |-> CPU_new, ram |-> RamAtStart]
    /\ twin = TwinOff

\* one call of CPU::step
CoreStep(code) ==
    /\ ghost.steps < MaxSteps
    /\ \E r \in {CPU_step_decode(Machine, loop.rom, code)} :
          /\ Commit(r.m)
          /\ ghost' = CoreGhost(r.did, code, r.cycles, ghost.steps + 1)
    /\ UNCHANGED <<nes, loop, twin>>

\* CPU::trigger_nmi() / CPU::trigger_irq() between two steps
CoreTrigger(line) ==
    /\ ghost.steps < MaxSteps
    /\ IF line = "nmi" THEN ~cpu.m_nmi_pending ELSE ~cpu.m_irq_pending
    /\ cpu' = IF line = "nmi" THEN CPU_trigger_nmi(cpu) ELSE CPU_trigger_irq(cpu)
    /\ ghost' = CoreGhost("trigger", ghost.code, 0, ghost.steps)
    /\ UNCHANGED <<nes, ppu, apu, bus, mapper, loop, twin>>

NextCpu ==
    \/ \E code \in Programs : CoreStep(code)
    \/ \E line \in {"nmi", "irq"} : CoreTrigger(line)

SpecCpu == InitCpu /\ [][NextCpu]_vars

\* the last action was a CPU::step call
Stepped == ghost.did \in {"nmi", "irq", "op"}

\* C22: a CPU::step with NMI and IRQ both pending services the NMI (PC
\* from $FFFA) and leaves the IRQ pending; a step with an IRQ pending and
\* flag I set executes the fetched instruction and leaves the IRQ pending;
\* a step with an IRQ pending, I clear and no NMI pending services the IRQ
\* (PC from $FFFE, 7 cycles) and executes no instruction.
C22_InterruptPriority ==
    Stepped =>
        LET b == ghost.before
        IN  /\ (b.m_nmi_pending /\ b.m_irq_pending) =>
                  /\ ghost.did = "nmi"
                  /\ cpu.m_pc = ArrGet(loop.rom, 65530) + (256 * ArrGet(loop.rom, 65531))
                  /\ cpu.m_irq_pending /\ ~cpu.m_nmi_pending
            /\ (b.m_irq_pending /\ ~b.m_nmi_pending /\ Bit(b.m_status, 2) = 1) =>
                  /\ ghost.did = "op"
                  /\ cpu.m_irq_pending
            /\ (b.m_irq_pending /\ ~b.m_nmi_pending /\ Bit(b.m_status, 2) = 0) =>
                  /\ ghost.did = "irq"
                  /\ cpu.m_pc = ArrGet(loop.rom, 65534) + (256 * ArrGet(loop.rom, 65535))
                  /\ ghost.cycles = 7
                  /\ ~cpu.m_irq_pending
                  /\ cpu.m_a = b.m_a

\* C22 case: the IRQ raised together with an NMI has stayed pending
\* through the NMI entry and through the CLI executed with I set, and the
\* step after the CLI has serviced it
C22_Witness ==
    /\ ghost.did = "irq" /\ ghost.steps = 3
    /\ cpu.m_sp = 247
    /\ cpu.m_pc = ArrGet(loop.rom, 65534) + (256 * ArrGet(loop.rom, 65535))

\* C25: JMP (ptr) loads PC with the low byte at ptr and the high byte at
\* ptr + 1, except that for ptr = $xxFF the high byte comes from $xx00.
C25_IndirectJmp ==
    (ghost.did = "op" /\ ghost.code[1] = 108) =>
        LET ptr == (ghost.code[3] * 256) + ghost.code[2]
            hi == IF ptr % 256 = 255 THEN ptr - 255 ELSE ptr + 1
        IN  cpu.m_pc = ArrGet(ghost.ram, ptr) + (256 * ArrGet(ghost.ram, hi))

\* C25 case: JMP ($02FF) with $34 at $02FF, $12 at $0200 and $56 at $0300
\* has jumped to $1234
C25_Witness ==
    /\ ghost.did = "op" /\ ghost.code = <<108, 255, 2>>
    /\ cpu.m_pc = 4660

\* the byte at stack address $0100 + sp
StackAt(sp) == ArrGet(bus.m_ram, 256 + U8(sp))

\* C29: the status register always has U set and B clear; PHP and BRK
\* push the status with B and U set; an NMI or IRQ entry pushes PC high,
\* PC low and the status with U set and B clear, sets I and returns 7.
C29_PushedStatus ==
    /\ Bit(cpu.m_status, 5) = 1 /\ Bit(cpu.m_status, 4) = 0
    /\ Stepped =>
        LET b == ghost.before
        IN  /\ (ghost.did = "op" /\ ghost.code[1] = 8) =>
                  /\ StackAt(b.m_sp) = b.m_status + 16
                  /\ cpu.m_sp = U8(b.m_sp + 255)
            /\ (ghost.did = "op" /\ ghost.code[1] = 0) =>
                  /\ StackAt(b.m_sp - 2 + 256) = b.m_status + 16
                  /\ cpu.m_sp = U8(b.m_sp + 253)
            /\ ghost.did \in {"nmi", "irq"} =>
                  /\ StackAt(b.m_sp) = b.m_pc \div 256
                  /\ StackAt(b.m_sp - 1 + 256) = b.m_pc % 256
                  /\ StackAt(b.m_sp - 2 + 256) = b.m_status
                  /\ cpu.m_sp = U8(b.m_sp + 253)
                  /\ Bit(cpu.m_status, 2) = 1
                  /\ ghost.cycles = 7

\* C29 case: an NMI entry taken after PLP pulled $FF (all flags) has pushed
\* the status $EF: every flag, U set, B clear
C29_Witness ==
    /\ ghost.did = "nmi"
    /\ ghost.before.m_status = 239
    /\ StackAt(cpu.m_sp + 1) = 239

\* C30: a conditional branch returns 2 cycles when not taken, 3 when taken
\* to an address in the page of the next instruction, 4 when taken to
\* another page.
C30_BranchCycles ==
    (ghost.did = "op" /\ ghost.code[1] \in DOMAIN Branches) =>
        LET next == U16(ghost.before.m_pc + 2)
            taken == (Bit(ghost.before.m_status, Branches[ghost.code[1]].bit) = 1)
                        = Branches[ghost.code[1]].set
        IN  ghost.cycles = IF ~taken THEN 2
                           ELSE IF cpu.m_pc \div 256 = next \div 256 THEN 3
                           ELSE 4

---------------------------------------------------------------------------
(* Specification of the cartridge memory: a cartridge of mapper 4, 7 or 9 *)
(* with each of the ROM sizes below is loaded; the CPU writes mapper       *)
(* registers and reads PRG space, the PPU reads and writes pattern-table   *)
(* space.                                                                  *)

\* PRG ROM sizes in 16 KiB units (iNES header byte 4)
PrgUnits == {1, 2, 8, 129}
\* CHR ROM sizes in 8 KiB units (iNES header byte 5), 0: 8 KiB of CHR RAM
ChrUnits == {0, 1, 4}
\* mapper register writes, and pattern-table writes
MaxWrites == 2
MaxChrWrites == 1

\* the registers the CPU writes on each mapper, and the values
RegAddrs(num) ==
    IF num = 4 THEN {32768, 32769} ELSE IF num = 7 THEN {32768}
    ELSE {40960, 45056, 49152}
RegValues == {0, 2, 5, 6, 69, 70, 128, 255}
\* the addresses read in PRG space and read or written in CHR space
PrgAddrs == {32768, 40959, 40960, 49152, 57343, 57344, 65535}
ChrAddrs == {0, 4056, 4072, 4096, 8191}

CartGhost(op, address, value, data, writes, chr_writes) ==
    [op |-> op, address |-> address, value |-> value, data |-> data,
     writes |-> writes, chr_writes |-> chr_writes,
     mapper |-> mapper, cart |-> loop.cart]

\* Cartridge::load (PRG and CHR sizes from the header, CHR RAM when the
\* header has no CHR ROM) and create_mapper
InitCart ==
    /\ nes = NesLoaded
    /\ cpu = CPU_new
    /\ ppu = PPU_reset
    /\ apu = APU_reset
    /\ bus = Bus_new
    /\ \E num \in {4, 7, 9}, p \in PrgUnits, c \in ChrUnits :
         LET prg_size == p * 16384
             chr_size == IF c = 0 THEN 8192 ELSE c * 8192
         IN  /\ mapper = IF num = 4
                         THEN Mapper004_reset(prg_size, chr_size, MirrorHorizontal)
                         ELSE IF num = 7 THEN Mapper007_reset(prg_size, chr_size)
                         ELSE Mapper009_reset(prg_size, chr_size, MirrorHorizontal)
             /\ loop = [pc |-> "cart", cart |-> [has_chr_ram |-> c = 0, chr |-> <<>>]]
             /\ ghost = [op |-> "none", address |-> 0, value |-> 0, data |-> 0,
                         writes |-> 0, chr_writes |-> 0, mapper |-> mapper,
                         cart |-> loop.cart]
    /\ twin = TwinOff

\* a CPU write to a mapper register
CartCpuWrite(address, value) ==
    /\ ghost.writes < MaxWrites
    /\ mapper' = Cartridge_cpu_write(mapper, address, value)
    /\ ghost' = CartGhost("cpu_write", address, value, 0, ghost.writes + 1,
                          ghost.chr_writes)
    /\ UNCHANGED <<nes, cpu, ppu, apu, bus, loop, twin>>

\* a CPU read in $8000-$FFFF
CartCpuRead(address) ==
    /\ ghost' = CartGhost("cpu_read", address, 0,
                          Cartridge_cpu_read(mapper, address),
                          ghost.writes, ghost.chr_writes)
    /\ UNCHANGED <<nes, cpu, ppu, apu, bus, mapper, loop, twin>>

\* a PPU read in $0000-$1FFF
CartPpuRead(address) ==
    /\ \E r \in {Cartridge_ppu_read(mapper, loop.cart, address)} :
          /\ mapper' = r.mapper
          /\ ghost' = CartGhost("ppu_read", address, 0, r.data,
                                ghost.writes, ghost.chr_writes)
    /\ UNCHANGED <<nes, cpu, ppu, apu, bus, loop, twin>>

\* a PPU write in $0000-$1FFF (a PPUDATA write with v in that range)
CartPpuWrite(address, value) ==
    /\ ghost.chr_writes < MaxChrWrites
    /\ loop' = [loop EXCEPT !.cart = Cartridge_ppu_write(mapper, @, address, value)]
    /\ ghost' = CartGhost("ppu_write", address, value, 0, ghost.writes,
                          ghost.chr_writes + 1)
    /\ UNCHANGED <<nes, cpu, ppu, apu, bus, mapper, twin>>

NextCart ==
    \/ \E address \in RegAddrs(mapper.num), value \in RegValues :
          CartCpuWrite(address, value)
    \/ \E address \in PrgAddrs : CartCpuRead(address)
    \/ \E address \in ChrAddrs : CartPpuRead(address)
    \/ \E address \in ChrAddrs : CartPpuWrite(address, 7)

SpecCart == InitCart /\ [][NextCart]_vars

\* C23: a CPU read in $8000-$FFFF returns a byte of PRG ROM and a PPU read in
\* $0000-$1FFF a byte of CHR memory, both at an index below the size; on
\* MMC3 $E000-$FFFF reads the last 8 KiB bank of PRG ROM and the other
\* fixed window the second-last; on MMC2 $A000-$FFFF reads the last three
\* 8 KiB banks.
C23_BankWrapping ==
    /\ ghost.op = "cpu_read" =>
          LET size == mapper.prg_rom_size
              a == ghost.address
          IN  /\ \E k \in 0..((size \div 1024) - 1) :
                     ghost.data = PrgByte((k * 1024) + (a % 1024))
              /\ (mapper.num = 4 /\ a >= 57344) =>
                     ghost.data = PrgByte((size - 8192) + (a % 8192))
              /\ (mapper.num = 4 /\ a \div 8192 = (IF mapper.m_prg_mode THEN 4 ELSE 6)) =>
                     ghost.data = PrgByte((size - 16384) + (a % 8192))
              /\ (mapper.num = 9 /\ a >= 40960) =>
                     ghost.data = PrgByte((size - 24576) + (a - 40960))
    /\ ghost.op = "ppu_read" =>
          \E k \in 0..((mapper.chr_rom_size \div 1024) - 1) :
              ghost.data = ChrAt(ghost.cart, (k * 1024) + (ghost.address % 1024))

\* C23, the bank numbers: a register write that selects PRG bank b gives
\* the same reads as the write that selects bank b mod the number of
\* banks (8 KiB banks on MMC3 and MMC2, 32 KiB banks on AxROM), when the ROM
\* is a whole number of banks.
C23_BankModulo ==
    (ghost.op = "cpu_write" /\ ghost.mapper.num \in {7, 9}) =>
        LET m == ghost.mapper
            unit == IF m.num = 7 THEN 32768 ELSE 8192
            count == m.prg_rom_size \div unit
            b == ghost.value % 16
        IN  (count > 0 /\ m.prg_rom_size % unit = 0) =>
                \A a \in PrgAddrs :
                    Cartridge_cpu_read(mapper, a)
                        = Cartridge_cpu_read(
                              Cartridge_cpu_write(m, ghost.address,
                                  (ghost.value - b) + (b % count)), a)

\* C24: a PPU write to $0000-$1FFF on a cartridge whose CHR is ROM changes
\* no CHR byte, and no other access changes one.
C24_ChrImmutable ==
    /\ (ghost.op = "ppu_write" /\ ~loop.cart.has_chr_ram) => loop.cart = ghost.cart
    /\ ghost.op # "ppu_write" => loop.cart = ghost.cart

---------------------------------------------------------------------------
(* The APU's output rate: APU::step and APU::get_samples.  The sample      *)
(* values (floats) and the channels do not enter the conditions that       *)
(* decide when a sample is written; they are left at their reset values.   *)

SAMPLE_RATE == 44100
CPU_FREQ == 1789773
AUDIO_BUFFER_SIZE == 8192

\* the same, with the rate counter cleared instead of reduced by CPU_FREQ
APU_cycle_counter_cleared(a) ==
    LET counter == a.m_sample_counter + SAMPLE_RATE
    IN  IF counter >= CPU_FREQ
        THEN [a EXCEPT !.m_cycles = @ + 1,
                       !.m_sample_counter = 0,
                       !.m_sample_count = 0,
                       !.m_audio_write_pos =
                           IF @ < (AUDIO_BUFFER_SIZE * 2) - 1 THEN @ + 2 ELSE @]
        ELSE [a EXCEPT !.m_cycles = @ + 1,
                       !.m_sample_counter = counter,
                       !.m_sample_count = @ + 1]

\* one pass of the loop of APU::step
APU_cycle(a) ==
    LET counter == a.m_sample_counter + SAMPLE_RATE
    IN  IF counter >= CPU_FREQ
        THEN [a EXCEPT !.m_cycles = @ + 1,
                       !.m_sample_counter = counter - CPU_FREQ,
                       !.m_sample_count = 0,
                       !.m_audio_write_pos =
                           IF @ < (AUDIO_BUFFER_SIZE * 2) - 1 THEN @ + 2 ELSE @]
        ELSE [a EXCEPT !.m_cycles = @ + 1,
                       !.m_sample_counter = counter,
                       !.m_sample_count = @ + 1]

\* APU::step: cpu_cycles passes of the loop
RECURSIVE APU_step(_, _)
APU_step(a, cpu_cycles) ==
    IF cpu_cycles <= 0 THEN a
    ELSE Let(APU_cycle(a), LAMBDA b : APU_step(b, cpu_cycles - 1))

\* APU::get_samples: the number of pairs handed out, and the APU after it
APU_get_samples(a, max_samples) ==
    LET samples == a.m_audio_write_pos \div 2
    IN  [samples |-> IF samples > max_samples THEN max_samples ELSE samples,
         apu |-> [a EXCEPT !.m_audio_write_pos = 0]]

---------------------------------------------------------------------------
(* Specification of the audio output: the host passes CPU cycles to         *)
(* APU::step in calls of several lengths and drains the buffer at any time. *)

\* CPU cycles passed in all, and drains of the buffer
MaxApuCycles == 400
MaxDrains == 2
\* lengths of the calls: instructions, an interrupt entry, a longer stall
StepLengths == {1, 2, 7, 30}
\* the max_samples of a drain: less than what is waiting, and the buffer size
DrainSizes == {1, AUDIO_BUFFER_SIZE}

\* cycles passed, pairs written to the buffer, drains and what the last one
\* returned, and the last call
InitApu ==
    /\ nes = NesLoaded
    /\ cpu = CPU_new
    /\ ppu = PPU_reset
    /\ apu = APU_reset
    /\ bus = Bus_new
    /\ mapper = Mapper004_reset(32768, 8192, MirrorHorizontal)
    /\ loop = [pc |-> "apu"]
    /\ ghost = [cycles |-> 0, emitted |-> 0, returned |-> 0, drains |-> 0,
                last |-> 0, op |-> "none"]
    /\ twin = TwinOff

ApuStep(cpu_cycles) ==
    /\ ghost.cycles + cpu_cycles <= MaxApuCycles
    /\ \E a \in {APU_step(apu, cpu_cycles)} :
          /\ apu' = a
          /\ ghost' = [ghost EXCEPT
                 !.cycles = @ + cpu_cycles,
                 !.emitted = @ + ((a.m_audio_write_pos - apu.m_audio_write_pos) \div 2),
                 !.last = cpu_cycles,
                 !.op = "step"]
    /\ UNCHANGED <<nes, cpu, ppu, bus, mapper, loop, twin>>

ApuDrain(max_samples) ==
    /\ ghost.op = "step"
    /\ ghost.drains < MaxDrains
    /\ \E r \in {APU_get_samples(apu, max_samples)} :
          /\ apu' = r.apu
          /\ ghost' = [ghost EXCEPT
                 !.returned = r.samples,
                 !.drains = @ + 1,
                 !.op = "drain"]
    /\ UNCHANGED <<nes, cpu, ppu, bus, mapper, loop, twin>>

NextApu ==
    \/ \E cpu_cycles \in StepLengths : ApuStep(cpu_cycles)
    \/ \E max_samples \in DrainSizes : ApuDrain(max_samples)

SpecApu == InitApu /\ [][NextApu]_vars

\* C26: after N CPU cycles passed to APU::step, in calls of any lengths and
\* with drains between them, the number of sample pairs written to the
\* buffer is floor(N * 44100 / 1789773), and the rate counter is at least 0
\* and below 1789773.
C26_SampleCount ==
    /\ ghost.emitted = (ghost.cycles * SAMPLE_RATE) \div CPU_FREQ
    /\ apu.m_sample_counter >= 0
    /\ apu.m_sample_counter < CPU_FREQ
    /\ apu.m_sample_counter = (ghost.cycles * SAMPLE_RATE) % CPU_FREQ

\* nine pairs have been written, in calls and drains of several lengths
C26_Witness ==
    /\ ghost.emitted = 9
    /\ ghost.drains = 2
    /\ ghost.returned = 1
    /\ ghost.last = 7
    /\ apu.m_audio_write_pos = 2

---------------------------------------------------------------------------
(* Specification of the MMC3 scanline counter: the program writes the IRQ  *)
(* latch ($C000), requests a reload ($C001) and enables the IRQ ($E001);   *)
(* the PPU clocks the counter with A12 rises that pass the filter.         *)

\* counter clocks followed after a reload request
MaxClocks == 9
\* the values written to the latch
LatchValues == {0, 1, 2, 3}

\* one counter clock: A12 falls, and rises FILTER_THRESHOLD dots later
Mapper004_clock(m) ==
    Mapper004_clock_counter_on_a12_fast(
        Mapper004_clock_counter_on_a12_fast(m, FALSE, 0).mapper,
        TRUE, FILTER_THRESHOLD)

\* op: the last call; counter, reload: m_irq_counter and m_irq_reload
\* before it; n: the latch at the last reload request (-1: none yet, or the
\* latch was rewritten since); since: the clocks since that request
InitClock ==
    /\ nes = NesLoaded
    /\ cpu = CPU_new
    /\ ppu = PPU_reset
    /\ apu = APU_reset
    /\ bus = Bus_new
    /\ mapper = Mapper004_reset(PrgBanks * 8192, ChrBanks * 1024, MirrorHorizontal)
    /\ loop = [pc |-> "clock"]
    /\ ghost = [op |-> "none", counter |-> 0, reload |-> FALSE,
                n |-> 0 - 1, since |-> 0]
    /\ twin = TwinOff

ClockLatch(value) ==
    /\ mapper.m_irq_latch # value
    /\ mapper' = Mapper004_cpu_write(mapper, 49152, value)
    /\ ghost' = [op |-> "latch", counter |-> mapper.m_irq_counter,
                 reload |-> mapper.m_irq_reload, n |-> 0 - 1, since |-> 0]
    /\ UNCHANGED <<nes, cpu, ppu, apu, bus, loop, twin>>

ClockReload ==
    /\ mapper' = Mapper004_cpu_write(mapper, 49153, 0)
    /\ ghost' = [op |-> "reload", counter |-> mapper.m_irq_counter,
                 reload |-> mapper.m_irq_reload, n |-> mapper.m_irq_latch,
                 since |-> 0]
    /\ UNCHANGED <<nes, cpu, ppu, apu, bus, loop, twin>>

ClockEnable ==
    /\ ~mapper.m_irq_enabled
    /\ mapper' = Mapper004_cpu_write(mapper, 57345, 0)
    /\ ghost' = [ghost EXCEPT !.op = "enable",
                              !.counter = mapper.m_irq_counter,
                              !.reload = mapper.m_irq_reload]
    /\ UNCHANGED <<nes, cpu, ppu, apu, bus, loop, twin>>

ClockTick ==
    /\ ghost.since < MaxClocks
    /\ \E r \in {Mapper004_clock(mapper)} :
          /\ r.clocked
          /\ mapper' = r.mapper
          /\ ghost' = [ghost EXCEPT !.op = "clock",
                                    !.counter = mapper.m_irq_counter,
                                    !.reload = mapper.m_irq_reload,
                                    !.since = @ + 1]
    /\ UNCHANGED <<nes, cpu, ppu, apu, bus, loop, twin>>

NextClock ==
    \/ \E value \in LatchValues : ClockLatch(value)
    \/ ClockReload
    \/ ClockEnable
    \/ ClockTick

SpecClock == InitClock /\ [][NextClock]_vars

\* C31: a counter clock loads the latch and clears the reload flag when
\* the counter was 0 or the flag was set, and decrements the counter
\* otherwise; k >= 1 clocks after a reload request made with latch N >= 1
\* (the latch not rewritten since) the counter is N - ((k-1) mod (N+1)): it
\* is 0 exactly at clocks N+1, 2(N+1), ..., and never above the latch.
C31_CounterClocking ==
    /\ ghost.op = "clock" =>
          IF ghost.counter = 0 \/ ghost.reload
          THEN mapper.m_irq_counter = mapper.m_irq_latch /\ ~mapper.m_irq_reload
          ELSE /\ mapper.m_irq_counter = ghost.counter - 1
               /\ mapper.m_irq_reload = ghost.reload
    /\ (ghost.n >= 1 /\ ghost.since >= 1) =>
          /\ mapper.m_irq_latch = ghost.n
          /\ mapper.m_irq_counter = ghost.n - ((ghost.since - 1) % (ghost.n + 1))
          /\ mapper.m_irq_counter = 0 <=> ghost.since % (ghost.n + 1) = 0
          /\ mapper.m_irq_counter <= mapper.m_irq_latch

\* the counter is 0 for the second time after a reload request with latch 2
C31_Witness ==
    /\ ghost.op = "clock"
    /\ ghost.n = 2
    /\ ghost.since = 6
    /\ mapper.m_irq_counter = 0

---------------------------------------------------------------------------
(* Mapper001 (MMC1): the serial port and the registers it loads.           *)

\* Mapper001::update_banks
Mapper001_update_banks(m) ==
    LET prg_mode == (m.m_control \div 4) % 4
        b0 == IF prg_mode <= 1 THEN (m.m_prg_bank - (m.m_prg_bank % 2)) * 16384
              ELSE IF prg_mode = 2 THEN 0
              ELSE m.m_prg_bank * 16384
        b1 == IF prg_mode <= 1 THEN b0 + 16384
              ELSE IF prg_mode = 2 THEN m.m_prg_bank * 16384
              ELSE m.prg_rom_size - 16384
        m1 == [m EXCEPT !.m_prg_bank_0_offset = b0 % m.prg_rom_size,
                        !.m_prg_bank_1_offset = b1 % m.prg_rom_size]
    IN  IF m.chr_rom_size = 0 THEN m1
        ELSE IF Bit(m.m_control, 4) = 1
        THEN [m1 EXCEPT
                 !.m_chr_bank_0_offset = (m.m_chr_bank_0 * 4096) % m.chr_rom_size,
                 !.m_chr_bank_1_offset = (m.m_chr_bank_1 * 4096) % m.chr_rom_size]
        ELSE LET c0 == (((m.m_chr_bank_0 % 32) - (m.m_chr_bank_0 % 2)) * 4096)
                           % m.chr_rom_size
             IN  [m1 EXCEPT
                     !.m_chr_bank_0_offset = c0,
                     !.m_chr_bank_1_offset =
                         IF c0 + 4096 >= m.chr_rom_size THEN 0 ELSE c0 + 4096]

\* Mapper001::Mapper001 and Mapper001::reset
Mapper001_reset(prg_size, chr_size, mirror) ==
    Mapper001_update_banks(
        [ num |-> 1, prg_rom_size |-> prg_size, chr_rom_size |-> chr_size,
          m_shift_register |-> 16, m_shift_count |-> 0, m_control |-> 12,
          m_chr_bank_0 |-> 0, m_chr_bank_1 |-> 0, m_prg_bank |-> 0,
          m_prg_bank_0_offset |-> 0, m_prg_bank_1_offset |-> 0,
          m_chr_bank_0_offset |-> 0, m_chr_bank_1_offset |-> 0,
          m_mirror_mode |-> mirror ])

\* Mapper001::write_register(address, value), address >= $8000
Mapper001_write_register(m, address, value) ==
    IF Bit(value, 7) = 1
    THEN Mapper001_update_banks(
             [m EXCEPT !.m_shift_register = 16, !.m_shift_count = 0,
                       !.m_control = ((@ \div 16) * 16) + 12 + (@ % 4)])
    ELSE LET shifted == ((value % 2) * 16) + (m.m_shift_register \div 2)
             count == m.m_shift_count + 1
             m1 == [m EXCEPT !.m_shift_register = shifted, !.m_shift_count = count]
         IN  IF count # 5 THEN m1
             ELSE LET reg_value == shifted
                      m2 == IF address < 40960
                            THEN [m1 EXCEPT
                                     !.m_control = reg_value,
                                     \* SingleScreen0, SingleScreen1, Vertical,
                                     \* Horizontal
                                     !.m_mirror_mode =
                                         IF reg_value % 4 = 0 THEN 2
                                         ELSE IF reg_value % 4 = 1 THEN 3
                                         ELSE IF reg_value % 4 = 2 THEN MirrorVertical
                                         ELSE MirrorHorizontal]
                            ELSE IF address < 49152
                            THEN [m1 EXCEPT !.m_chr_bank_0 = reg_value]
                            ELSE IF address < 57344
                            THEN [m1 EXCEPT !.m_chr_bank_1 = reg_value]
                            ELSE [m1 EXCEPT !.m_prg_bank = reg_value % 16]
                  IN  [Mapper001_update_banks(m2) EXCEPT
                          !.m_shift_register = 16, !.m_shift_count = 0]

\* Mapper001::cpu_write(address, value); PRG RAM ($6000-$7FFF) is cartridge
\* memory outside the mapper record
Mapper001_cpu_write(m, address, value) ==
    IF address >= 32768 THEN Mapper001_write_register(m, address, value) ELSE m

---------------------------------------------------------------------------
(* Specification of the MMC1 serial port: the CPU writes to $6000-$FFFF    *)
(* with bit 0 and bit 7 of the value set or clear, in every order.         *)

\* CPU writes made in all
MaxPortWrites == 9
\* the addresses written: PRG RAM, and the four register ranges
PortAddrs == {24576, 32768, 40960, 49152, 57344}
PortValues == {0, 1, 128, 129}

\* the value of five bits, the first the least significant
RECURSIVE BitsValue(_)
BitsValue(bits) ==
    IF bits = <<>> THEN 0 ELSE bits[1] + (2 * BitsValue(Tail(bits)))

\* op: what the last write was in the shift sequence ("shift": one of the
\* first four writes, "commit": the fifth, "reset": a write with bit 7 set,
\* "ram": a write below $8000); bits: bit 0 of the writes of the sequence
\* in progress; value: the five bits of the sequence that the last write
\* completed; address: the address of the last write; before: the mapper
\* before it; writes: the writes made
InitPort ==
    /\ nes = NesLoaded
    /\ cpu = CPU_new
    /\ ppu = PPU_reset
    /\ apu = APU_reset
    /\ bus = Bus_new
    /\ mapper = Mapper001_reset(65536, 32768, MirrorHorizontal)
    /\ loop = [pc |-> "port"]
    /\ ghost = [op |-> "none", bits |-> <<>>, value |-> 0, address |-> 0,
                before |-> mapper, writes |-> 0]
    /\ twin = TwinOff

PortWrite(address, value) ==
    /\ ghost.writes < MaxPortWrites
    /\ mapper' = Mapper001_cpu_write(mapper, address, value)
    /\ LET bits == Append(ghost.bits, value % 2)
       IN  ghost' = [op |-> IF address < 32768 THEN "ram"
                            ELSE IF value >= 128 THEN "reset"
                            ELSE IF Len(bits) = 5 THEN "commit" ELSE "shift",
                     bits |-> IF address < 32768 THEN ghost.bits
                              ELSE IF value >= 128 \/ Len(bits) = 5 THEN <<>>
                              ELSE bits,
                     value |-> IF address >= 32768 /\ value < 128 /\ Len(bits) = 5
                               THEN BitsValue(bits) ELSE 0,
                     address |-> address,
                     before |-> mapper,
                     writes |-> ghost.writes + 1]
    /\ UNCHANGED <<nes, cpu, ppu, apu, bus, loop, twin>>

NextPort ==
    \E address \in PortAddrs, value \in PortValues : PortWrite(address, value)

SpecPort == InitPort /\ [][NextPort]_vars

\* the four registers of the mapper
PortRegs(m) == <<m.m_control, m.m_chr_bank_0, m.m_chr_bank_1, m.m_prg_bank>>

\* C32: the fifth write of a sequence of writes to $8000-$FFFF with bit 7
\* clear stores the five bits (bit 0 of each write, the first the least
\* significant) in the register that the address of the fifth write
\* selects, and changes no other register; the first four writes change no
\* register; a write with bit 7 set ends the sequence, sets bits 2 and 3 of
\* control and leaves CHR0, CHR1 and PRG unchanged.
C32_SerialPort ==
    LET old == PortRegs(ghost.before)
        new == PortRegs(mapper)
        sel == IF ghost.address < 40960 THEN 1
               ELSE IF ghost.address < 49152 THEN 2
               ELSE IF ghost.address < 57344 THEN 3 ELSE 4
    IN  /\ ghost.op = "commit" =>
              \A i \in 1..4 : new[i] = IF i = sel THEN ghost.value ELSE old[i]
        /\ ghost.op \in {"shift", "ram"} => new = old
        /\ ghost.op = "reset" =>
              /\ new[1] = ((old[1] \div 16) * 16) + 12 + (old[1] % 4)
              /\ \A i \in 2..4 : new[i] = old[i]

\* C32 with the PRG register holding the low four of the five bits
C32_SerialPortLow4 ==
    LET old == PortRegs(ghost.before)
        new == PortRegs(mapper)
        sel == IF ghost.address < 40960 THEN 1
               ELSE IF ghost.address < 49152 THEN 2
               ELSE IF ghost.address < 57344 THEN 3 ELSE 4
    IN  /\ ghost.op = "commit" =>
              \A i \in 1..4 :
                  new[i] = IF i # sel THEN old[i]
                           ELSE IF i = 4 THEN ghost.value % 16 ELSE ghost.value
        /\ ghost.op \in {"shift", "ram"} => new = old
        /\ ghost.op = "reset" =>
              /\ new[1] = ((old[1] \div 16) * 16) + 12 + (old[1] % 4)
              /\ \A i \in 2..4 : new[i] = old[i]

---------------------------------------------------------------------------
(* Specification of the MMC2 / MMC4 CHR latches: the CPU writes the four   *)
(* CHR bank registers, the PPU reads and writes pattern-table addresses at *)
(* and around the trigger addresses.                                       *)

\* CHR bank register writes, and PPU accesses after the last of them
MaxBankWrites == 4
MaxLatchReads == 3
\* the addresses the PPU reads: $0000, $07D8, $0FD7..$0FD9, $0FDF, $0FE0,
\* $0FE8, $0FEC, $0FF0 and the same in the second half
LatchAddrs ==
    LET low == {0, 2008, 4055, 4056, 4057, 4063, 4064, 4072, 4076, 4080}
    IN  low \cup {a + 4096 : a \in low}

\* op: the last access; address, data: its address and the byte a read
\* returned; before: the mapper before it; writes: the register writes,
\* reads: the PPU accesses made since
InitLatch ==
    /\ nes = NesLoaded
    /\ cpu = CPU_new
    /\ ppu = PPU_reset
    /\ apu = APU_reset
    /\ bus = Bus_new
    /\ mapper \in {Mapper009_reset(131072, 32768, MirrorHorizontal),
                   Mapper010_reset(131072, 32768, MirrorHorizontal)}
    /\ loop = [pc |-> "latch", cart |-> [has_chr_ram |-> FALSE, chr |-> <<>>]]
    /\ ghost = [op |-> "none", address |-> 0, data |-> 0, before |-> mapper,
                writes |-> 0, reads |-> 0]
    /\ twin = TwinOff

\* the register at $B000 + 4096 * i receives bank i + 1 or bank i + 5
LatchBankWrite(address, value) ==
    /\ ghost.writes < MaxBankWrites
    /\ ghost.reads = 0
    /\ address = 45056 + (4096 * ghost.writes)
    /\ mapper' = Cartridge_cpu_write(mapper, address, value)
    /\ ghost' = [op |-> "cpu_write", address |-> address, data |-> 0,
                 before |-> mapper, writes |-> ghost.writes + 1, reads |-> 0]
    /\ UNCHANGED <<nes, cpu, ppu, apu, bus, loop, twin>>

LatchPpuRead(address) ==
    /\ ghost.reads < MaxLatchReads
    /\ \E r \in {Cartridge_ppu_read(mapper, loop.cart, address)} :
          /\ mapper' = r.mapper
          /\ ghost' = [ghost EXCEPT !.op = "ppu_read", !.address = address,
                                    !.data = r.data, !.before = mapper,
                                    !.reads = @ + 1]
    /\ UNCHANGED <<nes, cpu, ppu, apu, bus, loop, twin>>

LatchPpuWrite(address, value) ==
    /\ ghost.reads < MaxLatchReads
    /\ loop' = [loop EXCEPT !.cart = Cartridge_ppu_write(mapper, @, address, value)]
    /\ ghost' = [ghost EXCEPT !.op = "ppu_write", !.address = address,
                              !.data = 0, !.before = mapper, !.reads = @ + 1]
    /\ UNCHANGED <<nes, cpu, ppu, apu, bus, mapper, twin>>

NextLatch ==
    \/ \E address \in {45056, 49152, 53248, 57344} :
          \E value \in {((address - 45056) \div 4096) + 1,
                        ((address - 45056) \div 4096) + 5} :
              LatchBankWrite(address, value)
    \/ \E address \in LatchAddrs : LatchPpuRead(address)
    \/ \E address \in {4056, 8168} : LatchPpuWrite(address, 7)

SpecLatch == InitLatch /\ [][NextLatch]_vars

\* the 4 KiB CHR bank a latch selects for its half
LatchBank(m, half) ==
    IF half = 0
    THEN (IF m.m_latch_0 THEN m.m_chr_bank_0_fe ELSE m.m_chr_bank_0_fd)
    ELSE (IF m.m_latch_1 THEN m.m_chr_bank_1_fe ELSE m.m_chr_bank_1_fd)

\* C33: a PPU read returns the byte of the bank that the latch of its 4 KiB
\* half selected before the read; afterwards latch 0 is FD after a read of
\* $0FD8 (on MMC4: of $0FD8-$0FDF), FE after a read of $0FE8 (on MMC4: of
\* $0FE8-$0FEF) and unchanged after any other read; latch 1 is FD after a
\* read of $1FD8-$1FDF, FE after a read of $1FE8-$1FEF and unchanged after
\* any other read; a PPU write changes no latch; the bank offsets in use
\* are always those of the banks the latches select.
C33_ChrLatches ==
    LET a == ghost.address
        old == ghost.before
        masked == (a % 4096) - (a % 8)
        hit0(t) == IF mapper.num = 9 THEN a = t ELSE a < 4096 /\ masked = t
        hit1(t) == a >= 4096 /\ masked = t
    IN  /\ ghost.op = "ppu_read" =>
              /\ ghost.data = ChrAt(loop.cart,
                     ((LatchBank(old, a \div 4096) * 4096) + (a % 4096))
                         % mapper.chr_rom_size)
              /\ mapper.m_latch_0 = IF hit0(4056) THEN FALSE
                                    ELSE IF hit0(4072) THEN TRUE
                                    ELSE old.m_latch_0
              /\ mapper.m_latch_1 = IF hit1(4056) THEN FALSE
                                    ELSE IF hit1(4072) THEN TRUE
                                    ELSE old.m_latch_1
        /\ ghost.op = "ppu_write" =>
              /\ mapper.m_latch_0 = old.m_latch_0
              /\ mapper.m_latch_1 = old.m_latch_1
        /\ mapper.m_chr_bank_0_offset = (LatchBank(mapper, 0) * 4096) % mapper.chr_rom_size
        /\ mapper.m_chr_bank_1_offset = (LatchBank(mapper, 1) * 4096) % mapper.chr_rom_size

\* on MMC2 a read of $0FD8, the second PPU access, has returned the byte
\* of the FE bank and left latch 0 at FD
C33_Witness ==
    /\ mapper.num = 9
    /\ ghost.op = "ppu_read"
    /\ ghost.address = 4056
    /\ ghost.before.m_latch_0
    /\ ~mapper.m_latch_0
    /\ mapper.m_chr_bank_0_fd = 1
    /\ mapper.m_chr_bank_0_fe = 6
    /\ ghost.data = ChrByte((6 * 4096) + 4056)
    /\ ghost.reads = 2

(***************************************************************************)
(* CPU accesses to the PPU address and data ports: PPUCTRL, PPUSCROLL,     *)
(* PPUADDR and PPUDATA on the machine after reset, rendering disabled.     *)
(***************************************************************************)
MaxRegWrites == 3
MaxDataWrites == 1
MaxDataReads == 2
MaxBursts == 2
ReadBursts == {1, 6, 512}
MaxRegDots == 1
\* <<register, value>> pairs written to $2000, $2005 and $2006
AddrPortWrites == {<<8192, 4>>, <<8197, 255>>, <<8198, 63>>, <<8198, 47>>}
DataValues == {85}

InitRegs ==
    /\ nes = NesLoaded
    /\ cpu = CPU_new
    /\ ppu = PPU_reset
    /\ apu = APU_reset
    /\ bus = Bus_new
    /\ mapper \in {Mapper004_reset(PrgBanks * 8192, ChrBanks * 1024, mirror) :
                      mirror \in {MirrorHorizontal, MirrorVertical}}
    /\ loop = [pc |-> "regs"]
    \* v, buffer, fresh: m_v, m_data_buffer and ppu_read(m_v) before the
    \* access; data: the byte a read returned; ev: the address handed to
    \* the mapper by Bus::notify_ppu_addr_change
    /\ ghost = [op |-> "none", addr |-> 0, value |-> 0, data |-> 0,
                v |-> 0, buffer |-> 0, fresh |-> 0, inc |-> 0, ev |-> <<>>,
                writes |-> 0, data_writes |-> 0, reads |-> 0, bursts |-> 0,
                dots |-> 0]
    /\ twin = TwinOff

RegsGhost(op, address, value, data, ev) ==
    [ghost EXCEPT !.op = op, !.addr = address, !.value = value, !.data = data,
                  !.v = ppu.m_v, !.buffer = ppu.m_data_buffer,
                  !.fresh = PPU_ppu_read(ppu, Cartridge_get_mirror_mode(mapper),
                                         ppu.m_v),
                  !.inc = PPU_vram_increment(ppu),
                  !.ev = [i \in 1..Len(ev) |-> ev[i].addr]]

\* a CPU write to $2000, $2005 or $2006
RegsWrite(address, value) ==
    /\ ghost.writes < MaxRegWrites
    /\ \E w \in {Bus_cpu_write(Machine, address, value)} :
          /\ Commit(w.m)
          /\ ghost' = [RegsGhost("write", address, value, 0, w.ev)
                          EXCEPT !.writes = @ + 1]
    /\ UNCHANGED <<nes, loop, twin>>

\* a CPU write to $2007
RegsDataWrite(value) ==
    /\ ghost.data_writes < MaxDataWrites
    /\ \E w \in {Bus_cpu_write(Machine, 8199, value)} :
          /\ Commit(w.m)
          /\ ghost' = [RegsGhost("write", 8199, value, 0, w.ev)
                          EXCEPT !.data_writes = @ + 1]
    /\ UNCHANGED <<nes, loop, twin>>

\* n reads of $2007 in a row, the machine after them
RECURSIVE RegsReadTimes(_, _)
RegsReadTimes(M, n) ==
    IF n = 0 THEN M
    ELSE IF n % 2 = 1
    THEN Let(RegsReadTimes(M, n - 1), LAMBDA a : Bus_cpu_read(a, 8199).m)
    ELSE Let(RegsReadTimes(M, n \div 2), LAMBDA a : RegsReadTimes(a, n \div 2))

\* a loop of n CPU reads of $2007; the ghost describes the last of them
RegsDataRead(n) ==
    /\ ghost.reads < MaxDataReads
    /\ n > 1 => ghost.bursts < MaxBursts
    /\ \E b \in {RegsReadTimes(Machine, n - 1)} :
       \E r \in {Bus_cpu_read(b, 8199)} :
          /\ Commit(r.m)
          /\ ghost' = [ghost EXCEPT
                 !.op = "read", !.addr = 8199, !.value = 0, !.data = r.data,
                 !.v = b.ppu.m_v, !.buffer = b.ppu.m_data_buffer,
                 !.fresh = PPU_ppu_read(b.ppu, Cartridge_get_mirror_mode(b.mapper),
                                        b.ppu.m_v),
                 !.inc = PPU_vram_increment(b.ppu),
                 !.ev = [i \in 1..Len(r.ev) |-> r.ev[i].addr],
                 !.reads = @ + 1,
                 !.bursts = IF n > 1 THEN @ + 1 ELSE @]
    /\ UNCHANGED <<nes, loop, twin>>

\* PPU::step between the accesses
RegsStep ==
    /\ ghost.dots < MaxRegDots
    /\ \E s \in {Bus_ppu_step(Machine)} :
          /\ Commit(s.m)
          /\ ghost' = [RegsGhost("step", 0, 0, 0, <<>>) EXCEPT !.dots = @ + 1]
    /\ UNCHANGED <<nes, loop, twin>>

NextRegs ==
    \/ \E w \in AddrPortWrites : RegsWrite(w[1], w[2])
    \/ \E value \in DataValues : RegsDataWrite(value)
    \/ \E n \in ReadBursts : RegsDataRead(n)
    \/ RegsStep

SpecRegs == InitRegs /\ [][NextRegs]_vars

\* C34: a read of $2007 returns the previous read buffer when the effective
\* address (v mod $4000) is below $3F00 and the byte at the address itself
\* when it is in $3F00-$3FFF; the buffer is refilled from the address, the
\* effective address advances by 1 or 32 according to PPUCTRL bit 2, and
\* the mapper is notified of the new v.
C34_PpuDataRead ==
    (ghost.op = "read" /\ ghost.addr = 8199) =>
        /\ ghost.data = (IF ghost.v % 16384 < 16128 THEN ghost.buffer
                         ELSE ghost.fresh)
        /\ ppu.m_data_buffer = ghost.fresh
        /\ ghost.inc = (IF Bit(ppu.m_ctrl, 2) = 1 THEN 32 ELSE 1)
        /\ ppu.m_v % 16384 = (ghost.v + ghost.inc) % 16384
        /\ ghost.ev = <<ppu.m_v>>

\* the same with the code's test on the raw v
C34_PpuDataReadRaw ==
    (ghost.op = "read" /\ ghost.addr = 8199) =>
        /\ ghost.data = (IF ghost.v < 16128 THEN ghost.buffer ELSE ghost.fresh)
        /\ ppu.m_data_buffer = ghost.fresh
        /\ ppu.m_v % 16384 = (ghost.v + ghost.inc) % 16384
        /\ ghost.ev = <<ppu.m_v>>

\* C35: v and t are 15-bit values and fine X is at most 7 in every state
\* reached by PPU::step and accesses to $2000, $2005, $2006 and $2007.
C35_LoopyWidths ==
    /\ ppu.m_v <= 32767
    /\ ppu.m_t <= 32767
    /\ ppu.m_x <= 7

(***************************************************************************)
(* The APU's channels: register writes, the status read, and the clocks    *)
(* of the frame counter.                                                   *)
(***************************************************************************)
s_length_table ==
    <<10, 254, 20, 2, 40, 4, 80, 6, 160, 8, 60, 10, 14, 12, 26, 14,
      12, 16, 24, 18, 48, 20, 96, 22, 192, 24, 72, 26, 16, 28, 32, 30>>

s_noise_period_table ==
    <<4, 8, 16, 32, 64, 96, 128, 160, 202, 254, 380, 508, 762, 1016, 2034, 4068>>

\* void APU::clock_length_counters()
APU_clock_length_counters(a) ==
    LET P(q) == IF ~q.length_halt /\ q.length_counter > 0
                THEN [q EXCEPT !.length_counter = @ - 1] ELSE q
    IN  [a EXCEPT !.m_pulse = <<P(@[1]), P(@[2])>>,
                  !.m_triangle = IF ~@.control_flag /\ @.length_counter > 0
                                 THEN [@ EXCEPT !.length_counter = @ - 1] ELSE @,
                  !.m_noise = P(@)]

\* void APU::clock_envelopes()
APU_clock_envelopes(a) ==
    LET E(q) == IF q.envelope_start
                THEN [q EXCEPT !.envelope_start = FALSE, !.envelope_counter = 15,
                               !.envelope_divider = q.volume]
                ELSE IF q.envelope_divider = 0
                THEN [q EXCEPT !.envelope_divider = q.volume,
                               !.envelope_counter =
                                   IF @ > 0 THEN @ - 1
                                   ELSE IF q.length_halt THEN 15 ELSE @]
                ELSE [q EXCEPT !.envelope_divider = @ - 1]
        T(t) == LET t1 == IF t.linear_counter_reload_flag
                          THEN [t EXCEPT !.linear_counter = t.linear_counter_reload]
                          ELSE IF t.linear_counter > 0
                          THEN [t EXCEPT !.linear_counter = @ - 1]
                          ELSE t
                IN  IF ~t1.control_flag
                    THEN [t1 EXCEPT !.linear_counter_reload_flag = FALSE] ELSE t1
    IN  [a EXCEPT !.m_pulse = <<E(@[1]), E(@[2])>>,
                  !.m_noise = E(@),
                  !.m_triangle = T(@)]

\* void APU::clock_sweeps()
APU_clock_sweeps(a) ==
    LET S(q, p) ==
            LET change == q.timer_period \div (2 ^ q.sweep_shift)
                q1 == IF q.sweep_divider = 0 /\ q.sweep_enabled
                      THEN [q EXCEPT !.timer_period =
                               IF q.sweep_negate
                               THEN U16((@ - change) - (IF p = 0 THEN 1 ELSE 0))
                               ELSE U16(@ + change)]
                      ELSE q
            IN  IF q1.sweep_divider = 0 \/ q1.sweep_reload
                THEN [q1 EXCEPT !.sweep_divider = q1.sweep_period,
                                !.sweep_reload = FALSE]
                ELSE [q1 EXCEPT !.sweep_divider = @ - 1]
    IN  [a EXCEPT !.m_pulse = <<S(@[1], 0), S(@[2], 1)>>]

\* the envelope, length and sweep clocks of a half frame
APU_clock_half_frame(a) ==
    APU_clock_sweeps(APU_clock_length_counters(APU_clock_envelopes(a)))

\* void APU::clock_frame_counter()
APU_clock_frame_counter(a) ==
    LET step == a.m_frame_counter_step + 1
        a0 == [a EXCEPT !.m_frame_counter_step = step]
        last == IF a.m_frame_counter_mode = 0 THEN 4 ELSE 5
        a1 == IF step \in {1, 3} THEN APU_clock_envelopes(a0) ELSE a0
        a2 == IF step \in {2, last} THEN APU_clock_half_frame(a1) ELSE a1
    IN  IF step >= last
        THEN [a2 EXCEPT !.m_frame_counter_step = 0,
                        !.m_frame_irq = IF a.m_frame_counter_mode = 0
                                           /\ ~a.m_irq_inhibit
                                        THEN TRUE ELSE @]
        ELSE a2

\* uint8_t APU::cpu_read(address)
APU_cpu_read(a, address) ==
    IF address = 16405
    THEN [apu |-> [a EXCEPT !.m_frame_irq = FALSE],
          data |-> (IF a.m_pulse[1].length_counter > 0 THEN 1 ELSE 0)
                 + (IF a.m_pulse[2].length_counter > 0 THEN 2 ELSE 0)
                 + (IF a.m_triangle.length_counter > 0 THEN 4 ELSE 0)
                 + (IF a.m_noise.length_counter > 0 THEN 8 ELSE 0)
                 + (IF a.m_frame_irq THEN 64 ELSE 0)]
    ELSE [apu |-> a, data |-> 0]

\* void APU::cpu_write(address, value)
APU_cpu_write(a, address, value) ==
    LET p == IF address < 16388 THEN 1 ELSE 2
        reg == address % 4
        on(i) == Bit(value, i) = 1
    IN  IF address >= 16384 /\ address <= 16391 THEN
            IF reg = 0
            THEN [a EXCEPT !.m_pulse[p].duty = (value \div 64) % 4,
                           !.m_pulse[p].length_halt = on(5),
                           !.m_pulse[p].constant_volume = on(4),
                           !.m_pulse[p].volume = value % 16]
            ELSE IF reg = 1
            THEN [a EXCEPT !.m_pulse[p].sweep_enabled = on(7),
                           !.m_pulse[p].sweep_period = (value \div 16) % 8,
                           !.m_pulse[p].sweep_negate = on(3),
                           !.m_pulse[p].sweep_shift = value % 8,
                           !.m_pulse[p].sweep_reload = TRUE]
            ELSE IF reg = 2
            THEN [a EXCEPT !.m_pulse[p].timer_period =
                               (((@ \div 256) % 8) * 256) + value]
            ELSE [a EXCEPT !.m_pulse[p].timer_period =
                               (@ % 256) + ((value % 8) * 256),
                           !.m_pulse[p].length_counter =
                               s_length_table[(value \div 8) + 1],
                           !.m_pulse[p].sequence_pos = 0,
                           !.m_pulse[p].envelope_start = TRUE]
        ELSE IF address = 16392
        THEN [a EXCEPT !.m_triangle.control_flag = on(7),
                       !.m_triangle.linear_counter_reload = value % 128]
        ELSE IF address = 16394
        THEN [a EXCEPT !.m_triangle.timer_period =
                           (((@ \div 256) % 8) * 256) + value]
        ELSE IF address = 16395
        THEN [a EXCEPT !.m_triangle.timer_period =
                           (@ % 256) + ((value % 8) * 256),
                       !.m_triangle.length_counter =
                           s_length_table[(value \div 8) + 1],
                       !.m_triangle.linear_counter_reload_flag = TRUE]
        ELSE IF address = 16396
        THEN [a EXCEPT !.m_noise.length_halt = on(5),
                       !.m_noise.constant_volume = on(4),
                       !.m_noise.volume = value % 16]
        ELSE IF address = 16398
        THEN [a EXCEPT !.m_noise.mode = on(7),
                       !.m_noise.timer_period =
                           s_noise_period_table[(value % 16) + 1]]
        ELSE IF address = 16399
        THEN [a EXCEPT !.m_noise.length_counter =
                           s_length_table[(value \div 8) + 1],
                       !.m_noise.envelope_start = TRUE]
        ELSE IF address = 16400
        THEN [a EXCEPT !.m_dmc.irq_enabled = on(7), !.m_dmc.loop = on(6),
                       !.m_dmc.rate = value % 16]
        ELSE IF address = 16401
        THEN [a EXCEPT !.m_dmc.output_level = value % 128]
        ELSE IF address = 16402
        THEN [a EXCEPT !.m_dmc.sample_address = U16(49152 + (value * 64))]
        ELSE IF address = 16403
        THEN [a EXCEPT !.m_dmc.sample_length = (value * 16) + 1]
        ELSE IF address = 16405
        THEN LET Off(q, i) == IF on(i) THEN [q EXCEPT !.enabled = TRUE]
                              ELSE [q EXCEPT !.enabled = FALSE,
                                             !.length_counter = 0]
             IN  [a EXCEPT !.m_pulse = <<Off(@[1], 0), Off(@[2], 1)>>,
                           !.m_triangle = Off(@, 2),
                           !.m_noise = Off(@, 3),
                           !.m_dmc.enabled = on(4)]
        ELSE IF address = 16407
        THEN LET a1 == [a EXCEPT !.m_frame_counter_mode = IF on(7) THEN 1 ELSE 0,
                                 !.m_irq_inhibit = on(6),
                                 !.m_frame_irq = IF on(6) THEN FALSE ELSE @,
                                 !.m_frame_counter_step = 0]
             IN  IF on(7) THEN APU_clock_half_frame(a1) ELSE a1
        ELSE a

---------------------------------------------------------------------------
(* Specification of the length counters: writes to $4015, to the length    *)
(* load registers and to $4017, reads of $4015, and frame counter clocks.  *)

MaxLenWrites == 3
MaxLenClocks == 3
\* <<register, value>>: $4015 masks, length loads of 254 and of 2 on each
\* channel, the halt flag of pulse 1, and the 5-step mode of $4017
LenWrites ==
    {<<16405, 0>>, <<16405, 15>>, <<16405, 10>>, <<16384, 32>>, <<16407, 128>>}
        \cup {<<r, v>> : r \in {16387, 16391, 16395, 16399}, v \in {8, 24}}

InitLen ==
    /\ nes = NesLoaded
    /\ cpu = CPU_new
    /\ ppu = PPU_reset
    /\ apu = APU_reset
    /\ bus = Bus_new
    /\ mapper = Mapper004_reset(32768, 8192, MirrorHorizontal)
    /\ loop = [pc |-> "len"]
    /\ ghost = [op |-> "none", address |-> 0, value |-> 0, data |-> 0,
                writes |-> 0, clocks |-> 0]
    /\ twin = TwinOff

LenWrite(address, value) ==
    /\ ghost.writes < MaxLenWrites
    /\ apu' = APU_cpu_write(apu, address, value)
    /\ ghost' = [ghost EXCEPT !.op = "write", !.address = address,
                              !.value = value, !.writes = @ + 1]
    /\ UNCHANGED <<nes, cpu, ppu, bus, mapper, loop, twin>>

LenRead ==
    /\ \E r \in {APU_cpu_read(apu, 16405)} :
          /\ apu' = r.apu
          /\ ghost' = [ghost EXCEPT !.op = "read", !.address = 16405,
                                    !.data = r.data]
    /\ UNCHANGED <<nes, cpu, ppu, bus, mapper, loop, twin>>

\* the frame counter clock APU::step makes every 7457 cycles
LenClock ==
    /\ ghost.clocks < MaxLenClocks
    /\ apu' = APU_clock_frame_counter(apu)
    /\ ghost' = [ghost EXCEPT !.op = "clock", !.clocks = @ + 1]
    /\ UNCHANGED <<nes, cpu, ppu, bus, mapper, loop, twin>>

NextLen ==
    \/ \E w \in LenWrites : LenWrite(w[1], w[2])
    \/ LenRead
    \/ LenClock

SpecLen == InitLen /\ [][NextLen]_vars

\* channel 0..3: pulse 1, pulse 2, triangle, noise
ApuChannel(a, i) ==
    IF i = 0 THEN a.m_pulse[1] ELSE IF i = 1 THEN a.m_pulse[2]
    ELSE IF i = 2 THEN a.m_triangle ELSE a.m_noise

\* C36: a $4015 write with a channel's bit clear zeroes its length counter,
\* a disabled channel's length counter is 0 in every state, and a $4015
\* read reports 0 for a disabled channel.
C36_ChannelDisable ==
    \A i \in 0..3 :
        /\ (ghost.op = "write" /\ ghost.address = 16405 /\ Bit(ghost.value, i) = 0)
               => ApuChannel(apu, i).length_counter = 0
        /\ ~ApuChannel(apu, i).enabled => ApuChannel(apu, i).length_counter = 0
        /\ (ghost.op = "read" /\ ~ApuChannel(apu, i).enabled)
               => Bit(ghost.data, i) = 0

\* the part of it the code keeps: the $4015 write zeroes the counter, and
\* the read reports a bit exactly when the counter is not 0
C36_DisableZeroes ==
    \A i \in 0..3 :
        /\ (ghost.op = "write" /\ ghost.address = 16405 /\ Bit(ghost.value, i) = 0)
               => ApuChannel(apu, i).length_counter = 0
        /\ ghost.op = "read"
               => (Bit(ghost.data, i) = 1 <=> ApuChannel(apu, i).length_counter > 0)

---------------------------------------------------------------------------
(* Specification of the nametable accesses: PPU::ppu_read and              *)
(* PPU::ppu_write at $2000-$3EFF under each mirror mode a mapper reports.  *)

\* std::array<uint8_t, 2048> m_nametable
NametableSize == 2048
MirrorFourScreen == 4
MaxNtWrites == 2
NtAddrs == {8192, 9215, 9216, 10239, 10240, 11263, 11264, 12287, 12288, 14336, 16127}
NtValues == {85}
\* the values written to the mirroring register ($A000 on MMC3, $8000 on AxROM)
NtMirrorValues == {0, 1, 16}

\* MMC3 built with the header's horizontal, vertical or four-screen mode;
\* AxROM, single-screen
InitNt ==
    /\ nes = NesLoaded
    /\ cpu = CPU_new
    /\ ppu = PPU_reset
    /\ apu = APU_reset
    /\ bus = Bus_new
    /\ mapper \in {Mapper004_reset(32768, 8192, mirror) :
                      mirror \in {MirrorHorizontal, MirrorVertical, MirrorFourScreen}}
                  \cup {Mapper007_reset(131072, 0)}
    /\ loop = [pc |-> "nt"]
    /\ ghost = [op |-> "none", address |-> 0, mirror |-> 0, index |-> 0, writes |-> 0]
    /\ twin = TwinOff

NtGhost(op, address) ==
    [ghost EXCEPT !.op = op, !.address = address,
                  !.mirror = Cartridge_get_mirror_mode(mapper),
                  !.index = PPU_nametable_index(Cartridge_get_mirror_mode(mapper),
                                                address % 16384)]

\* a CPU write to the mapper's mirroring register
NtMirror(value) ==
    /\ mapper' = Cartridge_cpu_write(mapper,
                     IF mapper.num = 4 THEN 40960 ELSE 32768, value)
    /\ ghost' = [ghost EXCEPT !.op = "mirror", !.address = 0, !.index = 0,
                              !.mirror = Cartridge_get_mirror_mode(mapper')]
    /\ UNCHANGED <<nes, cpu, ppu, apu, bus, loop, twin>>

\* PPU::ppu_read(address); the byte read is not kept
NtRead(address) ==
    /\ ghost' = NtGhost("read", address)
    /\ UNCHANGED <<nes, cpu, ppu, apu, bus, mapper, loop, twin>>

\* PPU::ppu_write(address, value).  A store past the end of m_nametable is
\* undefined: it lands outside the PPU's state or in the member that
\* follows the array, m_palette.
NtWrite(address, value) ==
    /\ ghost.writes < MaxNtWrites
    /\ LET index == PPU_nametable_index(Cartridge_get_mirror_mode(mapper),
                                        address % 16384)
       IN  IF index < NametableSize
           THEN ppu' = PPU_ppu_write(ppu, Cartridge_get_mirror_mode(mapper),
                                     address, value)
           ELSE ppu' \in {ppu, [ppu EXCEPT !.m_palette =
                                    ArrSet(@, (index - NametableSize) % 32, value)]}
    /\ ghost' = [NtGhost("write", address) EXCEPT !.writes = @ + 1]
    /\ UNCHANGED <<nes, cpu, apu, bus, mapper, loop, twin>>

NextNt ==
    \/ \E value \in NtMirrorValues : NtMirror(value)
    \/ \E address \in NtAddrs : NtRead(address)
    \/ \E address \in NtAddrs, value \in NtValues : NtWrite(address, value)

SpecNt == InitNt /\ [][NextNt]_vars

\* C37: under every mirror mode and for every address in $2000-$3EFF the
\* index into the nametable RAM is in 0..2047.
C37_NametableIndex ==
    ghost.op \in {"read", "write"} =>
        (ghost.index >= 0 /\ ghost.index < NametableSize)

\* the same for the modes other than FourScreen
C37_NametableIndexMirrored ==
    (ghost.op \in {"read", "write"} /\ ghost.mirror # MirrorFourScreen) =>
        (ghost.index >= 0 /\ ghost.index < NametableSize)

---------------------------------------------------------------------------
(* Specification of the PPU with rendering disabled: PPUMASK stays 0, the  *)
(* program sets PPUCTRL and fills a nametable byte before the first dot,   *)
(* and PPU::step runs through the first scanlines.                         *)

MaxOffDots == 700
MaxOffWrites == 6
\* PPUCTRL with the background pattern table at $1000; PPUADDR bytes for
\* $2000; a tile number through PPUDATA
OffWrites == {<<8192, 16>>, <<8198, 32>>, <<8198, 0>>, <<8199, 85>>}

\* the background latches and shifters of the PPU
BgState(p) ==
    <<p.m_bg_next_tile_id, p.m_bg_next_tile_attrib, p.m_bg_next_tile_lo,
      p.m_bg_next_tile_hi, p.m_bg_shifter_pattern_lo, p.m_bg_shifter_pattern_hi,
      p.m_bg_shifter_attrib_lo, p.m_bg_shifter_attrib_hi>>

InitOff ==
    /\ nes = NesLoaded
    /\ cpu = CPU_new
    /\ ppu = PPU_reset
    /\ apu = APU_reset
    /\ bus = Bus_new
    /\ mapper = Mapper004_reset(PrgBanks * 8192, ChrBanks * 1024, MirrorHorizontal)
    /\ loop = [pc |-> "off"]
    \* mask, v, bg: PPUMASK, v and the latches and shifters before the step;
    \* ev: the address PPU::step handed to notify_ppu_address_bus; clocked:
    \* the MMC3 counter was clocked by it
    /\ ghost = [op |-> "none", mask |-> 0, v |-> 0, bg |-> BgState(PPU_reset),
                ev |-> <<>>, clocked |-> FALSE, writes |-> 0]
    /\ twin = TwinOff

OffWrite(address, value) ==
    /\ FrameCycle(ppu) = 0 /\ ppu.m_frame = 0
    /\ ghost.writes < MaxOffWrites
    /\ \E w \in {Bus_cpu_write(Machine, address, value)} : Commit(w.m)
    /\ ghost' = [ghost EXCEPT !.op = "write", !.writes = @ + 1, !.ev = <<>>,
                              !.clocked = FALSE]
    /\ UNCHANGED <<nes, loop, twin>>

OffStep ==
    /\ ppu.m_frame = 0 /\ FrameCycle(ppu) < MaxOffDots
    /\ \E s \in {Bus_ppu_step(Machine)} :
          /\ Commit(s.m)
          /\ ghost' = [ghost EXCEPT
                 !.op = "step", !.mask = ppu.m_mask, !.v = ppu.m_v,
                 !.bg = BgState(ppu),
                 !.ev = [i \in 1..Len(s.ev) |-> s.ev[i].addr],
                 !.clocked = s.ev # <<>> /\ s.ev[1].clocked]
    /\ UNCHANGED <<nes, loop, twin>>

NextOff ==
    \/ \E w \in OffWrites : OffWrite(w[1], w[2])
    \/ OffStep

SpecOff == InitOff /\ [][NextOff]_vars

\* C38: with PPUMASK bits 3 and 4 clear, PPU::step makes no
\* notify_ppu_address_bus call and no fetch, leaves v, the background
\* latches and the shifters as they were, and does not clock the MMC3
\* counter.
C38_IdleBus ==
    (ghost.op = "step" /\ ~RenderingOn(ghost.mask)) =>
        /\ ghost.ev = <<>>
        /\ ~ghost.clocked
        /\ ppu.m_v = ghost.v
        /\ BgState(ppu) = ghost.bg

\* the parts of it taken one at a time
C38_VKept == (ghost.op = "step" /\ ~RenderingOn(ghost.mask)) => ppu.m_v = ghost.v
C38_BgKept == (ghost.op = "step" /\ ~RenderingOn(ghost.mask)) => BgState(ppu) = ghost.bg
C38_NotClocked == (ghost.op = "step" /\ ~RenderingOn(ghost.mask)) => ~ghost.clocked

---------------------------------------------------------------------------
(* The noise channel's shift register: the noise timer of APU::step and    *)
(* the mode bit of $400E.                                                  *)

\* the same, with the feedback bit left out of the shift
APU_clock_noise_no_feedback(a) ==
    IF a.m_noise.timer = 0
    THEN [a EXCEPT !.m_noise.timer = a.m_noise.timer_period,
                   !.m_noise.shift_register = @ \div 2]
    ELSE [a EXCEPT !.m_noise.timer = @ - 1]

\* the noise timer of one APU cycle (every second pass of APU::step)
APU_clock_noise(a) ==
    IF a.m_noise.timer = 0
    THEN LET sr == a.m_noise.shift_register
             tap == IF a.m_noise.mode THEN 6 ELSE 1
             bit == (Bit(sr, tap) + Bit(sr, 0)) % 2
             low == sr \div 2
         IN  [a EXCEPT !.m_noise.timer = a.m_noise.timer_period,
                       !.m_noise.shift_register =
                           IF Bit(low, 14) = 1 THEN low ELSE low + (bit * 16384)]
    ELSE [a EXCEPT !.m_noise.timer = @ - 1]

\* n APU cycles of the noise timer
RECURSIVE NoiseTicks(_, _)
NoiseTicks(a, n) ==
    IF n = 0 THEN a
    ELSE Let(APU_clock_noise(a), LAMBDA b : NoiseTicks(b, n - 1))

\* $400E values: the shortest period, in either mode
NoiseModeValues == {0, 128}

\* modes: the modes in which the register has been clocked
InitNoise ==
    /\ nes = NesLoaded
    /\ cpu = CPU_new
    /\ ppu = PPU_reset
    /\ apu = APU_reset
    /\ bus = Bus_new
    /\ mapper = Mapper004_reset(32768, 8192, MirrorHorizontal)
    /\ loop = [pc |-> "noise"]
    /\ ghost = [op |-> "none", modes |-> {}]
    /\ twin = TwinOff

\* a CPU write to $400E
NoiseWrite(value) ==
    /\ apu' = APU_cpu_write(apu, 16398, value)
    /\ ghost' = [ghost EXCEPT !.op = "write"]
    /\ UNCHANGED <<nes, cpu, ppu, bus, mapper, loop, twin>>

\* one period of the noise timer: the clock of the shift register and the
\* timer_period cycles that count the timer down again
NoisePeriod ==
    /\ apu' = NoiseTicks(apu, apu.m_noise.timer_period + 1)
    /\ ghost' = [ghost EXCEPT !.op = "clock",
                              !.modes = @ \cup {apu.m_noise.mode}]
    /\ UNCHANGED <<nes, cpu, ppu, bus, mapper, loop, twin>>

NextNoise ==
    \/ \E value \in NoiseModeValues : NoiseWrite(value)
    \/ NoisePeriod

SpecNoise == InitNoise /\ [][NextNoise]_vars

\* C40: the noise shift register is never 0 and stays below 2^15, whatever
\* the number of clocks and the mode changes.
C40_LfsrAlive ==
    /\ apu.m_noise.shift_register > 0
    /\ apu.m_noise.shift_register < 32768

\* clocked in both modes, the last clock in mode 1, feedback bit set
C40_Witness ==
    /\ ghost.op = "clock"
    /\ ghost.modes = {FALSE, TRUE}
    /\ apu.m_noise.mode
    /\ apu.m_noise.shift_register >= 16384

(***************************************************************************)
(* The host's audio ring buffer (AudioManager): the emulation thread calls *)
(* push_samples, the audio thread runs fill_audio_buffer from the          *)
(* callback.  Each thread advances one statement at a time; the atomic     *)
(* loads and stores of m_read_pos and m_write_pos are single steps.  The   *)
(* device is running (m_paused false) in LargeBuffer mode.  A sample is    *)
(* the number of its place in the stream handed to push_samples: even      *)
(* numbers are left samples, odd numbers right samples.                    *)
(***************************************************************************)
\* stereo pairs in the ring (16384 in the source, scaled down)
RING_BUFFER_SIZE == 4
buffer_capacity == RING_BUFFER_SIZE * 2
\* samples handed to push_samples in all, the counts of its calls, and the
\* lengths of the callback's buffer
MaxPushed == 16
PushCounts == {2, 4, 8}
CallbackSamples == {2, 4}

\* a slot never written holds sample -1; fresh: written since last read
AudioManager_initialize ==
    [ m_ring_buffer |-> [i \in 0..(buffer_capacity - 1) |->
                             [sample |-> 0 - 1, fresh |-> FALSE]],
      m_read_pos |-> 0, m_write_pos |-> 0 ]

InitAudio ==
    /\ nes = NesLoaded
    /\ cpu = CPU_new
    /\ ppu = PPU_reset
    /\ apu = APU_reset
    /\ bus = Bus_new
    /\ mapper = Mapper004_reset(32768, 8192, MirrorHorizontal)
    \* am: the AudioManager; prod, cons: the position and the locals of
    \* push_samples and of fill_audio_buffer
    /\ loop = [pc |-> "audio", am |-> AudioManager_initialize,
               prod |-> [pc |-> "idle", write_pos |-> 0, read_pos |-> 0,
                         i |-> 0, count |-> 0, base |-> 0],
               cons |-> [pc |-> "idle", read_pos |-> 0, write_pos |-> 0,
                         i |-> 0, samples |-> 0]]
    \* next: samples handed to push_samples so far; last: the last sample
    \* read by the callback; stale: a slot was read that was not written
    \* since it was last read; disorder: a sample was read after a later
    \* one; swapped: a left sample was read as right or a right one as left
    /\ ghost = [op |-> "none", next |-> 0, last |-> 0 - 1, stale |-> FALSE,
                disorder |-> FALSE, swapped |-> FALSE, dropped |-> FALSE]
    /\ twin = TwinOff

AudioRest == UNCHANGED <<nes, cpu, ppu, apu, bus, mapper, twin>>

\* push_samples(samples, count) is called
PushCall(count) ==
    /\ loop.prod.pc = "idle"
    /\ ghost.next + count <= MaxPushed
    /\ loop' = [loop EXCEPT !.prod = [@ EXCEPT !.pc = "load_write", !.i = 0,
                                       !.count = count, !.base = ghost.next]]
    /\ ghost' = [ghost EXCEPT !.op = "push", !.next = @ + count, !.dropped = FALSE]
    /\ AudioRest

\* write_pos = m_write_pos.load(relaxed)
PushLoadWrite ==
    /\ loop.prod.pc = "load_write"
    /\ loop' = [loop EXCEPT !.prod.pc = "load_read",
                            !.prod.write_pos = loop.am.m_write_pos]
    /\ ghost' = [ghost EXCEPT !.op = "push"]
    /\ AudioRest

\* read_pos = m_read_pos.load(acquire)
PushLoadRead ==
    /\ loop.prod.pc = "load_read"
    /\ loop' = [loop EXCEPT !.prod.pc = "loop",
                            !.prod.read_pos = loop.am.m_read_pos]
    /\ ghost' = [ghost EXCEPT !.op = "push"]
    /\ AudioRest

\* one pass of the for loop: the overflow test, the store of the sample
PushSample ==
    /\ loop.prod.pc = "loop"
    /\ LET q == loop.prod
           next_write == (q.write_pos + 1) % buffer_capacity
       IN  IF q.i >= q.count
           THEN /\ loop' = [loop EXCEPT !.prod.pc = "store"]
                /\ ghost' = [ghost EXCEPT !.op = "push"]
           ELSE IF next_write = q.read_pos
           THEN /\ loop' = [loop EXCEPT !.prod.pc = "store"]
                /\ ghost' = [ghost EXCEPT !.op = "push", !.dropped = TRUE]
           ELSE /\ loop' = [loop EXCEPT
                       !.am.m_ring_buffer[q.write_pos] =
                           [sample |-> q.base + q.i, fresh |-> TRUE],
                       !.prod.write_pos = next_write,
                       !.prod.i = @ + 1]
                /\ ghost' = [ghost EXCEPT !.op = "push"]
    /\ AudioRest

\* m_write_pos.store(write_pos, release); push_samples returns
PushStore ==
    /\ loop.prod.pc = "store"
    /\ loop' = [loop EXCEPT !.prod.pc = "idle",
                            !.am.m_write_pos = loop.prod.write_pos]
    /\ ghost' = [ghost EXCEPT !.op = "pushed"]
    /\ AudioRest

\* the audio callback calls fill_audio_buffer(buffer, samples)
FillCall(samples) ==
    /\ loop.cons.pc = "idle"
    /\ loop' = [loop EXCEPT !.cons = [@ EXCEPT !.pc = "load_read", !.i = 0,
                                       !.samples = samples]]
    /\ ghost' = [ghost EXCEPT !.op = "fill"]
    /\ AudioRest

\* read_pos = m_read_pos.load(relaxed)
FillLoadRead ==
    /\ loop.cons.pc = "load_read"
    /\ loop' = [loop EXCEPT !.cons.pc = "load_write",
                            !.cons.read_pos = loop.am.m_read_pos]
    /\ ghost' = [ghost EXCEPT !.op = "fill"]
    /\ AudioRest

\* write_pos = m_write_pos.load(acquire)
FillLoadWrite ==
    /\ loop.cons.pc = "load_write"
    /\ loop' = [loop EXCEPT !.cons.pc = "loop",
                            !.cons.write_pos = loop.am.m_write_pos]
    /\ ghost' = [ghost EXCEPT !.op = "fill"]
    /\ AudioRest

\* one pass of the for loop of the simple mode: a stereo pair, or an underrun
FillPair ==
    /\ loop.cons.pc = "loop"
    /\ LET c == loop.cons
           available == IF c.write_pos >= c.read_pos
                        THEN c.write_pos - c.read_pos
                        ELSE (buffer_capacity - c.read_pos) + c.write_pos
           right_pos == (c.read_pos + 1) % buffer_capacity
           left == loop.am.m_ring_buffer[c.read_pos]
           right == loop.am.m_ring_buffer[right_pos]
       IN  IF c.i >= c.samples
           THEN /\ loop' = [loop EXCEPT !.cons.pc = "store"]
                /\ ghost' = [ghost EXCEPT !.op = "fill"]
           ELSE IF available >= 2
           THEN /\ loop' = [loop EXCEPT
                       !.am.m_ring_buffer[c.read_pos].fresh = FALSE,
                       !.am.m_ring_buffer[right_pos].fresh = FALSE,
                       !.cons.read_pos = (right_pos + 1) % buffer_capacity,
                       !.cons.i = @ + 2]
                /\ ghost' = [ghost EXCEPT
                       !.op = "pair",
                       !.last = right.sample,
                       !.stale = @ \/ ~left.fresh \/ ~right.fresh,
                       !.disorder = @ \/ left.sample <= ghost.last
                                      \/ right.sample <= left.sample,
                       !.swapped = @ \/ left.sample % 2 # 0
                                     \/ right.sample % 2 # 1]
           ELSE /\ loop' = [loop EXCEPT !.cons.i = @ + 2]
                /\ ghost' = [ghost EXCEPT !.op = "underrun"]
    /\ AudioRest

\* m_read_pos.store(read_pos, release); fill_audio_buffer returns
FillStore ==
    /\ loop.cons.pc = "store"
    /\ loop' = [loop EXCEPT !.cons.pc = "idle",
                            !.am.m_read_pos = loop.cons.read_pos]
    /\ ghost' = [ghost EXCEPT !.op = "filled"]
    /\ AudioRest

NextAudio ==
    \/ \E count \in PushCounts : PushCall(count)
    \/ PushLoadWrite
    \/ PushLoadRead
    \/ PushSample
    \/ PushStore
    \/ \E samples \in CallbackSamples : FillCall(samples)
    \/ FillLoadRead
    \/ FillLoadWrite
    \/ FillPair
    \/ FillStore

SpecAudio == InitAudio /\ [][NextAudio]_vars

\* C39: under every interleaving the callback reads the samples in the
\* order they were pushed and reads no slot that was not written since it
\* was last read, both positions stay below the capacity, the write
\* position is even after every push_samples call with an even count, and
\* no left sample is read as a right sample.
C39_RingBuffer ==
    /\ ~ghost.disorder
    /\ ~ghost.stale
    /\ loop.am.m_read_pos < buffer_capacity
    /\ loop.am.m_write_pos < buffer_capacity
    /\ ghost.op = "pushed" => loop.am.m_write_pos % 2 = 0
    /\ ~ghost.swapped

\* the part of it that does not concern the pairs
C39_OrderAndBounds ==
    /\ ~ghost.disorder
    /\ ~ghost.stale
    /\ loop.am.m_read_pos < buffer_capacity
    /\ loop.am.m_write_pos < buffer_capacity

\* the alignment of the pairs in what the callback reads
C39_PairsAligned == ~ghost.swapped

====
